---- MODULE Spec2Model ----
(***************************************************************************)
(* A model of the media reconciliation pipeline of picture_manager:        *)
(* conflict-safe copying (merge_all.py, file_utils.py, utils.py,           *)
(* file_organizer.py) and content-hash deduplication (duplicate_utils.py,  *)
(* file_unique.py, file_organizer.py, media_organizer/file_utils.py) over  *)
(* a POSIX file system with regular files, directories and symbolic links. *)
(* File names and paths are strings; the os.path functions the code calls  *)
(* are computed character by character.                                    *)
(***************************************************************************)
EXTENDS Naturals, Sequences, FiniteSets, TLC

VARIABLES
    fs,     \* the file system: path |-> [kind, data]
    pre,    \* the file system as it was when the last call started
    last,   \* the last call: its name, arguments and what it returned
    index,  \* the duplicates dict the last find_duplicate_files returned
    calls   \* number of calls made so far

vars == <<fs, pre, last, index, calls>>

-----------------------------------------------------------------------------
(* Strings.                                                                *)

\* The characters file names are built from, in code point order.
AsciiOrder == "./0123456789ABCDEFGHIJKLMNOPQRSTUVWXYZ_abcdefghijklmnopqrstuvwxyz"

UpperCase == "ABCDEFGHIJKLMNOPQRSTUVWXYZ"

LowerCase == "abcdefghijklmnopqrstuvwxyz"

Ch(s, i) == SubSeq(s, i, i)

\* The rank of a character in code point order (Python compares str by code point).
Ord(c) == CHOOSE i \in 1..Len(AsciiOrder) : Ch(AsciiOrder, i) = c

RECURSIVE StrLessFrom(_, _, _)
StrLessFrom(a, b, i) ==
    IF i > Len(b) THEN FALSE
    ELSE IF i > Len(a) THEN TRUE
    ELSE IF Ch(a, i) = Ch(b, i) THEN StrLessFrom(a, b, i + 1)
    ELSE Ord(Ch(a, i)) < Ord(Ch(b, i))

\* a < b for Python strings.
StrLess(a, b) == StrLessFrom(a, b, 1)

LowerChar(c) ==
    IF \E i \in 1..Len(UpperCase) : Ch(UpperCase, i) = c
    THEN Ch(LowerCase, CHOOSE i \in 1..Len(UpperCase) : Ch(UpperCase, i) = c)
    ELSE c

RECURSIVE LowerFrom(_, _)
LowerFrom(s, i) ==
    IF i > Len(s) THEN "" ELSE LowerChar(Ch(s, i)) \o LowerFrom(s, i + 1)

\* str.lower()
Lower(s) == LowerFrom(s, 1)

RECURSIVE RFindFrom(_, _, _)
RFindFrom(s, c, i) ==
    IF i = 0 THEN 0
    ELSE IF Ch(s, i) = c THEN i
    ELSE RFindFrom(s, c, i - 1)

\* str.rfind(c), 1-based; 0 when c does not occur.
RFind(s, c) == RFindFrom(s, c, Len(s))

Digit(d) == Ch("0123456789", d + 1)

RECURSIVE Str(_)
\* str(n) of a non-negative integer.
Str(n) == IF n < 10 THEN Digit(n) ELSE Str(n \div 10) \o Digit(n % 10)

-----------------------------------------------------------------------------
(* os.path.                                                                *)

Join(d, name) == d \o "/" \o name

Basename(p) == SubSeq(p, RFind(p, "/") + 1, Len(p))

Dirname(p) == SubSeq(p, 1, RFind(p, "/") - 1)

RECURSIVE AllDots(_, _, _)
AllDots(p, from, to) ==
    IF from >= to THEN TRUE
    ELSE IF Ch(p, from) # "." THEN FALSE
    ELSE AllDots(p, from + 1, to)

\* os.path.splitext: <<root, ext>>; the extension starts at the last dot of
\* the last path component unless only dots precede it there.
SplitExt(p) ==
    LET sepIndex == RFind(p, "/")
        dotIndex == RFind(p, ".")
    IN  IF dotIndex > sepIndex /\ ~AllDots(p, sepIndex + 1, dotIndex)
        THEN <<SubSeq(p, 1, dotIndex - 1), SubSeq(p, dotIndex, Len(p))>>
        ELSE <<p, "">>

\* p lies below directory d.
IsUnder(p, d) ==
    /\ Len(p) > Len(d) + 1
    /\ SubSeq(p, 1, Len(d) + 1) = d \o "/"

-----------------------------------------------------------------------------
(* The file system.                                                        *)

File(content) == [kind |-> "file", data |-> content]

Dir == [kind |-> "dir", data |-> ""]

Link(target) == [kind |-> "link", data |-> target]

\* The entry a path names after following a symbolic link.
Resolve(f, p) ==
    IF p \in DOMAIN f /\ f[p].kind = "link" THEN f[p].data ELSE p

\* os.path.exists: false for a dangling link.
Exists(f, p) == p \in DOMAIN f /\ Resolve(f, p) \in DOMAIN f

\* os.path.isfile: follows links.
IsFile(f, p) == Exists(f, p) /\ f[Resolve(f, p)].kind = "file"

\* os.path.islink
IsLink(f, p) == p \in DOMAIN f /\ f[p].kind = "link"

\* The bytes open(p, "rb") reads.
ReadFile(f, p) == f[Resolve(f, p)].data

\* The paths os.listdir(d) names.
Listdir(f, d) == {p \in DOMAIN f : Dirname(p) = d}

\* The non-directory entries os.walk(top) yields in its files lists.
WalkFiles(f, top) == {p \in DOMAIN f : IsUnder(p, top) /\ f[p].kind # "dir"}

Put(f, p, e) == [q \in DOMAIN f \cup {p} |-> IF q = p THEN e ELSE f[q]]

\* os.remove
Remove(f, p) == [q \in DOMAIN f \ {p} |-> f[q]]

\* The orders in which a set of paths can be enumerated.
Orders(S) ==
    {s \in [1..Cardinality(S) -> S] : \A i, j \in DOMAIN s : s[i] = s[j] => i = j}

\* os.walk is top-down: the files of one directory are yielded together, and
\* before the files of the directories below it; the order inside a
\* directory and among sibling directories is the file system's.
IsWalkOrder(s) ==
    /\ \A i, j, k \in DOMAIN s :
          i < j /\ j < k /\ Dirname(s[i]) = Dirname(s[k])
              => Dirname(s[j]) = Dirname(s[i])
    /\ \A i, j \in DOMAIN s :
          i < j => ~IsUnder(Dirname(s[i]), Dirname(s[j]))

WalkOrders(f, top) == {s \in Orders(WalkFiles(f, top)) : IsWalkOrder(s)}

-----------------------------------------------------------------------------
(* Copying without overwriting.                                            *)

\* What remains of a destination file whose writing was interrupted.
Truncated == "<truncated>"

\* shutil.copy2(src, dst). fault is "ok", "open" (the source cannot be
\* opened: nothing is created) or "write" (an I/O error while writing: the
\* destination is left truncated). A source that is a dangling link cannot
\* be opened. The destination is opened for writing through a link.
Copy2(f, src, dst, fault) ==
    IF ~IsFile(f, src) \/ fault = "open"
    THEN [fs |-> f, raised |-> TRUE]
    ELSE IF fault = "write"
    THEN [fs |-> Put(f, Resolve(f, dst), File(Truncated)), raised |-> TRUE]
    ELSE [fs |-> Put(f, Resolve(f, dst), File(ReadFile(f, src))), raised |-> FALSE]

\* os.makedirs(d, exist_ok=True)
MakeDirs(f, d) == IF d \in DOMAIN f THEN f ELSE Put(f, d, Dir)

\* A namer that does not look at the destination.
ConflictLoopNoCheck(f, dest_dir, base_name, ext, conflict_level, dest_name) ==
    [dest_name |-> dest_name, conflict_level |-> conflict_level]

RECURSIVE ConflictLoop(_, _, _, _, _, _)
\* while os.path.exists(os.path.join(dest_dir, dest_name)):
\*     conflict_level += 1; dest_name = f"{base_name}_{conflict_level}{ext}"
ConflictLoop(f, dest_dir, base_name, ext, conflict_level, dest_name) ==
    IF Exists(f, Join(dest_dir, dest_name))
    THEN ConflictLoop(f, dest_dir, base_name, ext, conflict_level + 1,
                      base_name \o "_" \o Str(conflict_level + 1) \o ext)
    ELSE [dest_name |-> dest_name, conflict_level |-> conflict_level]

ignore_list == {".DS_Store"}

\* One more entry of a conflict report (a dict keyed by source path).
Reported(report, src_path, filename, r) ==
    IF r.conflict_level > 0
    THEN [q \in DOMAIN report \cup {src_path} |->
             IF q = src_path
             THEN [original_name |-> filename, new_name |-> r.dest_name,
                   conflict_level |-> r.conflict_level]
             ELSE report[q]]
    ELSE report

RECURSIVE MergeAllLoop(_, _, _, _, _, _, _)
\* merge_all.copy_files_with_conflict_resolution, from the i-th file of the
\* walk on. log holds one <<src_path, dest_path>> per file copied.
MergeAllLoop(f, order, i, dest_dir, faults, report, log) ==
    IF i > Len(order)
    THEN [fs |-> f, report |-> report, log |-> log, raised |-> FALSE]
    ELSE
      LET src_path == order[i]
          filename == Basename(src_path)
      IN  IF filename \in ignore_list
          THEN MergeAllLoop(f, order, i + 1, dest_dir, faults, report, log)
          ELSE
            LET base_name == SplitExt(filename)[1]
                ext == SplitExt(filename)[2]
                r == ConflictLoop(f, dest_dir, base_name, ext, 0, filename)
                dest_path == Join(dest_dir, r.dest_name)
                c == Copy2(f, src_path, dest_path, faults[src_path])
            IN  IF c.raised
                THEN [fs |-> c.fs, report |-> report, log |-> log, raised |-> TRUE]
                ELSE MergeAllLoop(c.fs, order, i + 1, dest_dir, faults,
                                  Reported(report, src_path, filename, r),
                                  Append(log, <<src_path, dest_path>>))

\* merge_all.copy_files_with_conflict_resolution(src_dir, dest_dir), the walk
\* yielding the files in the given order.
MergeAllCopyFiles(f, order, dest_dir, faults) ==
    MergeAllLoop(MakeDirs(f, dest_dir), order, 1, dest_dir, faults, <<>>, <<>>)

\* file_types of file_utils.copy_files_with_conflict_resolution: None or a list.
NoFilter == {}

RECURSIVE FileUtilsLoop(_, _, _, _, _, _, _, _)
\* file_utils.copy_files_with_conflict_resolution, from the i-th file on.
FileUtilsLoop(f, order, i, dest_dir, file_types, faults, report, log) ==
    IF i > Len(order)
    THEN [fs |-> f, report |-> report, log |-> log, raised |-> FALSE]
    ELSE
      LET src_path == order[i]
          filename == Basename(src_path)
          base_name == SplitExt(filename)[1]
          ext == Lower(SplitExt(filename)[2])
      IN  IF \/ filename \in ignore_list
             \/ (file_types # NoFilter /\ ext \notin file_types)
          THEN FileUtilsLoop(f, order, i + 1, dest_dir, file_types, faults,
                             report, log)
          ELSE
            LET r == ConflictLoop(f, dest_dir, base_name, ext, 0, base_name \o ext)
                dest_path == Join(dest_dir, r.dest_name)
                c == Copy2(f, src_path, dest_path, faults[src_path])
            IN  IF c.raised
                THEN [fs |-> c.fs, report |-> report, log |-> log, raised |-> TRUE]
                ELSE FileUtilsLoop(c.fs, order, i + 1, dest_dir, file_types, faults,
                                   Reported(report, src_path, filename, r),
                                   Append(log, <<src_path, dest_path>>))

\* file_utils.copy_files_with_conflict_resolution(src_dir, dest_dir, file_types)
FileUtilsCopyFiles(f, order, dest_dir, file_types, faults) ==
    FileUtilsLoop(MakeDirs(f, dest_dir), order, 1, dest_dir, file_types, faults,
                  <<>>, <<>>)

RECURSIVE SafeCopyLoopSkip(_, _, _, _, _, _)
\* A namer that increments the counter before it formats the name.
SafeCopyLoopSkip(f, dst, base, ext, counter, new_path) ==
    IF Exists(f, new_path)
    THEN SafeCopyLoopSkip(f, dst, base, ext, counter + 1,
                          Join(dst, base \o "_" \o Str(counter + 1) \o ext))
    ELSE new_path

RECURSIVE SafeCopyLoop(_, _, _, _, _, _)
\* while os.path.exists(new_path):
\*     new_path = os.path.join(dst, f"{base}_{counter}{ext}"); counter += 1
SafeCopyLoop(f, dst, base, ext, counter, new_path) ==
    IF Exists(f, new_path)
    THEN SafeCopyLoop(f, dst, base, ext, counter + 1,
                      Join(dst, base \o "_" \o Str(counter) \o ext))
    ELSE new_path

\* utils.safe_copy(src, dst)
SafeCopy(f, src, dst, fault) ==
    LET f1 == IF ~Exists(f, dst) THEN Put(f, dst, Dir) ELSE f
        base == SplitExt(Basename(src))[1]
        ext == SplitExt(Basename(src))[2]
        new_path == SafeCopyLoop(f1, dst, base, ext, 1, Join(dst, base \o ext))
        c == Copy2(f1, src, new_path, fault)
    IN  [fs |-> c.fs, new_path |-> new_path, raised |-> c.raised]

SUPPORTED_EXTENSIONS ==
    [image |-> {".jpg", ".jpeg", ".png", ".gif", ".bmp", ".tiff"},
     video |-> {".mp4", ".mov", ".avi", ".mkv", ".flv", ".wmv"}]

RECURSIVE OrganizerCopyLoop(_, _, _, _, _, _)
\* FileOrganizer.copy_files, from the i-th file of the walk on.
OrganizerCopyLoop(f, order, i, target_folder, faults, log) ==
    IF i > Len(order)
    THEN [fs |-> f, report |-> <<>>, log |-> log, raised |-> FALSE]
    ELSE
      LET file_path == order[i]
          ext == Lower(SplitExt(Basename(file_path))[2])
      IN  IF \E kind \in DOMAIN SUPPORTED_EXTENSIONS : ext \in SUPPORTED_EXTENSIONS[kind]
          THEN
            LET c == SafeCopy(f, file_path, target_folder, faults[file_path])
            IN  IF c.raised
                THEN [fs |-> c.fs, report |-> <<>>, log |-> log, raised |-> TRUE]
                ELSE OrganizerCopyLoop(c.fs, order, i + 1, target_folder, faults,
                                       Append(log, <<file_path, c.new_path>>))
          ELSE OrganizerCopyLoop(f, order, i + 1, target_folder, faults, log)

\* FileOrganizer.copy_files()
OrganizerCopyFiles(f, order, target_folder, faults) ==
    OrganizerCopyLoop(MakeDirs(f, target_folder), order, 1, target_folder, faults, <<>>)

-----------------------------------------------------------------------------
(* The copy stage as a state machine: a source tree, a destination         *)
(* directory, and calls of the copy functions.                             *)

\* Bounds of the model.
MaxSrcFiles == 3

MaxDstFiles == 2

MaxCalls == 2

SrcDir == "src"

DstDir == "dst"

\* The entries a source tree is drawn from.
SrcUniverse ==
    [p \in {"src/a.jpg", "src/d1/a.jpg", "src/d2/a.jpg", "src/d2/a.JPG",
            "src/d1/.DS_Store", "src/d2/n.txt", "src/d1/l.jpg"} |->
        CASE p = "src/a.jpg" -> File("c1")
          [] p = "src/d1/a.jpg" -> File("c2")
          [] p = "src/d2/a.jpg" -> File("c3")
          [] p = "src/d2/a.JPG" -> File("c5")
          [] p = "src/d1/.DS_Store" -> File("c6")
          [] p = "src/d2/n.txt" -> File("c7")
          [] p = "src/d1/l.jpg" -> Link("src/a.jpg")]

\* The entries the destination directory holds before the first call.
DstUniverse ==
    [p \in {"dst/a.jpg", "dst/a_1.jpg", "dst/a_2.jpg"} |->
        CASE p = "dst/a.jpg" -> File("old0")
          [] p = "dst/a_1.jpg" -> File("old1")
          [] p = "dst/a_2.jpg" -> Dir]

RECURSIVE Ancestors(_)
\* The directories above a path.
Ancestors(p) ==
    IF RFind(p, "/") = 0 THEN {} ELSE {Dirname(p)} \cup Ancestors(Dirname(p))

\* The file system holding the given entries and the directories above them.
Tree(universe, S) ==
    LET dirs == UNION {Ancestors(p) : p \in S}
    IN  [p \in S \cup dirs |-> IF p \in S THEN universe[p] ELSE Dir]

NoCall == [op |-> "none", file_types |-> NoFilter, files |-> {}, faulty |-> {},
           report |-> <<>>, log |-> <<>>, raised |-> FALSE]

InitCopy ==
    /\ \E S \in SUBSET DOMAIN SrcUniverse, D \in SUBSET DOMAIN DstUniverse :
          /\ Cardinality(S) <= MaxSrcFiles
          /\ Cardinality(D) <= MaxDstFiles
          /\ fs = Tree(SrcUniverse, S) @@ Tree(DstUniverse, D) @@ (SrcDir :> Dir)
    /\ pre = fs
    /\ last = NoCall
    /\ index = <<>>
    /\ calls = 0

\* The ways one copy of a walk can fail: none does, or one file does.
FaultChoices(F) ==
    {[p \in F |-> "ok"]}
        \cup {[p \in F |-> IF p = q THEN k ELSE "ok"] : q \in F, k \in {"open", "write"}}

Faulty(faults) == {p \in DOMAIN faults : faults[p] # "ok"}

Called(op, file_types, faults, r) ==
    [op |-> op, file_types |-> file_types, files |-> DOMAIN faults,
     faulty |-> Faulty(faults),
     report |-> r.report, log |-> r.log, raised |-> r.raised]

\* merge_all.copy_files_with_conflict_resolution(SrcDir, DstDir)
MergeAllCopy ==
    /\ last.op = "none"
    /\ \E order \in WalkOrders(fs, SrcDir) :
       \E faults \in FaultChoices(WalkFiles(fs, SrcDir)) :
          LET r == MergeAllCopyFiles(fs, order, DstDir, faults)
          IN  /\ fs' = r.fs
              /\ last' = Called("merge_all", NoFilter, faults, r)
    /\ pre' = fs
    /\ calls' = calls + 1
    /\ UNCHANGED index

\* file_utils.copy_files_with_conflict_resolution(SrcDir, DstDir, file_types)
FileUtilsCopy ==
    /\ last.op = "none"
    /\ \E order \in WalkOrders(fs, SrcDir) :
       \E faults \in FaultChoices(WalkFiles(fs, SrcDir)) :
       \E file_types \in {NoFilter, {".jpg"}} :
          LET r == FileUtilsCopyFiles(fs, order, DstDir, file_types, faults)
          IN  /\ fs' = r.fs
              /\ last' = Called("file_utils", file_types, faults, r)
    /\ pre' = fs
    /\ calls' = calls + 1
    /\ UNCHANGED index

\* utils.safe_copy(src, DstDir) of one file of the source tree, called again
\* and again as tests/test_utils.py does
SafeCopyCall ==
    /\ calls < MaxCalls
    /\ last.op \in {"none", "safe_copy"}
    /\ \E src \in WalkFiles(fs, SrcDir) :
       \* tests/test_utils.py copies the same file each time
       /\ last.op = "safe_copy" => src \in last.files
       /\ \E fault \in {"ok", "open", "write"} :
          LET c == SafeCopy(fs, src, DstDir, fault)
              r == [report |-> <<>>, raised |-> c.raised,
                    log |-> IF c.raised THEN <<>> ELSE << <<src, c.new_path>> >>]
          IN  /\ fs' = c.fs
              /\ last' = Called("safe_copy", NoFilter,
                                [p \in {src} |-> fault], r)
    /\ pre' = fs
    /\ calls' = calls + 1
    /\ UNCHANGED index

\* FileOrganizer.copy_files() with source_folder SrcDir, target_folder DstDir
OrganizerCopy ==
    /\ last.op = "none"
    /\ \E order \in WalkOrders(fs, SrcDir) :
       \E faults \in FaultChoices(WalkFiles(fs, SrcDir)) :
          LET r == OrganizerCopyFiles(fs, order, DstDir, faults)
          IN  /\ fs' = r.fs
              /\ last' = Called("copy_files", NoFilter, faults, r)
    /\ pre' = fs
    /\ calls' = calls + 1
    /\ UNCHANGED index

NextCopy == MergeAllCopy \/ FileUtilsCopy \/ SafeCopyCall \/ OrganizerCopy

SpecCopy == InitCopy /\ [][NextCopy]_vars

-----------------------------------------------------------------------------
(* Claims about the copy stage.                                            *)

CopyOps == {"merge_all", "file_utils", "safe_copy", "copy_files"}

BatchCopyOps == {"merge_all", "file_utils", "copy_files"}

AllSupported == UNION {SUPPORTED_EXTENSIONS[k] : k \in DOMAIN SUPPORTED_EXTENSIONS}

\* The source files a call is to copy: all it was given but the ignored
\* names and the extensions it filters out.
Selected(c) ==
    {p \in c.files :
        LET ext == Lower(SplitExt(Basename(p))[2])
        IN  CASE c.op = "merge_all" -> Basename(p) # ".DS_Store"
              [] c.op = "file_utils" ->
                    /\ Basename(p) # ".DS_Store"
                    /\ (c.file_types = NoFilter \/ ext \in c.file_types)
              [] c.op = "copy_files" -> ext \in AllSupported
              [] OTHER -> TRUE}

LogSources(c) == {c.log[i][1] : i \in DOMAIN c.log}

LogDests(c) == {c.log[i][2] : i \in DOMAIN c.log}

\* C1: copy_files_with_conflict_resolution and safe_copy never overwrite:
\* every entry the file system held before the call is still there with the
\* same content (also when the call raised), and a call that returns has
\* added to the destination exactly one new file per selected source file,
\* holding that file's bytes.
C1_NeverOverwrites ==
    last.op \in CopyOps =>
        /\ \A p \in DOMAIN pre : p \in DOMAIN fs /\ fs[p] = pre[p]
        /\ ~last.raised =>
              /\ LogSources(last) = Selected(last)
              /\ Len(last.log) = Cardinality(Selected(last))
              /\ DOMAIN fs \ (DOMAIN pre \cup {DstDir}) = LogDests(last)
              /\ Cardinality(LogDests(last)) = Cardinality(Selected(last))
              /\ \A i \in DOMAIN last.log :
                    /\ Dirname(last.log[i][2]) = DstDir
                    /\ fs[last.log[i][2]] = File(ReadFile(pre, last.log[i][1]))

\* C1 witness: merge_all's copy returned after it copied a file whose name
\* was already taken in the destination before the call (the case of
\* test_existing_target_conflict).
C1_Witness ==
    /\ last.op = "merge_all"
    /\ ~last.raised
    /\ \E i \in DOMAIN last.log :
          /\ Join(DstDir, Basename(last.log[i][1])) \in DOMAIN pre
          /\ last.log[i][2] # Join(DstDir, Basename(last.log[i][1]))
          /\ fs[last.log[i][2]] # fs[Join(DstDir, Basename(last.log[i][1]))]

\* The i-th file's name with the suffix _k before the extension.
Suffixed(name, k) == SplitExt(name)[1] \o "_" \o Str(k) \o SplitExt(name)[2]

\* The destination paths in use when the i-th file of the call was copied.
TakenAt(c, i) ==
    {p \in DOMAIN pre : Dirname(p) = DstDir /\ Exists(pre, p)}
        \cup {c.log[j][2] : j \in 1..(i - 1)}

\* chosen is name when that is unused, else name with the smallest suffix
\* k >= 1 that is unused.
SmallestUnused(name, chosen, taken) ==
    IF Join(DstDir, name) \notin taken
    THEN chosen = Join(DstDir, name)
    ELSE \E k \in 1..(Cardinality(taken) + 1) :
            /\ chosen = Join(DstDir, Suffixed(name, k))
            /\ chosen \notin taken
            /\ \A j \in 1..(k - 1) : Join(DstDir, Suffixed(name, j)) \in taken

\* The names base.ext, base_1.ext, ..., base_(n-1).ext in the destination.
FirstNames(name, n) ==
    {Join(DstDir, name) : k \in 1..(IF n > 0 THEN 1 ELSE 0)}
        \cup {Join(DstDir, Suffixed(name, k)) : k \in 1..(n - 1)}

\* The name each variant asks for: file_utils lower-cases the extension.
Desired(c, src) ==
    IF c.op = "file_utils"
    THEN SplitExt(Basename(src))[1] \o Lower(SplitExt(Basename(src))[2])
    ELSE Basename(src)

EmptyDestination == ~\E p \in DOMAIN pre : Dirname(p) = DstDir

\* C2 as stated: the N paths are distinct, each chosen name is the file's own
\* name base.ext when unused and else base_k.ext for the smallest unused
\* k >= 1, and N files of one name copied into an empty destination get
\* base.ext, base_1.ext, ..., base_(N-1).ext.
C2_Original ==
    last.op \in CopyOps =>
        /\ Cardinality(LogDests(last)) = Len(last.log)
        /\ \A i \in DOMAIN last.log :
              SmallestUnused(Basename(last.log[i][1]), last.log[i][2],
                             TakenAt(last, i))
        /\ \A name \in {Basename(p) : p \in LogSources(last)} :
              (EmptyDestination /\ \A p \in LogSources(last) : Basename(p) = name)
                  => LogDests(last) = FirstNames(name, Len(last.log))

\* C2 amended: the same, the name asked for being base.ext with the extension
\* lower-cased in file_utils.copy_files_with_conflict_resolution.
C2_SmallestUnusedSuffix ==
    last.op \in CopyOps =>
        /\ Cardinality(LogDests(last)) = Len(last.log)
        /\ \A i \in DOMAIN last.log :
              SmallestUnused(Desired(last, last.log[i][1]), last.log[i][2],
                             TakenAt(last, i))
        /\ \A name \in {Desired(last, p) : p \in LogSources(last)} :
              (EmptyDestination /\ \A p \in LogSources(last) : Desired(last, p) = name)
                  => LogDests(last) = FirstNames(name, Len(last.log))

\* C2 witness: file_utils copied three files that ask for one name, one of
\* them with an upper-case extension, into an empty destination.
C2_Witness ==
    /\ last.op = "file_utils"
    /\ EmptyDestination
    /\ Len(last.log) = 3
    /\ \E i \in DOMAIN last.log : Basename(last.log[i][1]) = "a.JPG"
    /\ LogDests(last) = {"dst/a.jpg", "dst/a_1.jpg", "dst/a_2.jpg"}

\* The files whose copy fails: those the environment fails, and dangling links.
FailingCopies(c) == c.faulty \cup {p \in c.files : ~IsFile(pre, p)}

\* C10 as stated, for the copy stage: a file whose copy fails is skipped and
\* the batch goes on: the call returns and has copied every other selected file.
C10_CopyFailureSkipped ==
    last.op \in BatchCopyOps =>
        /\ ~last.raised
        /\ Selected(last) \ FailingCopies(last) \subseteq LogSources(last)

-----------------------------------------------------------------------------
(* Content fingerprints and the duplicate index.                           *)

\* hashlib.md5 of a file's bytes: equal for equal contents, different for
\* different ones.
Md5(content) == "md5:" \o content

\* What calculate_md5 returns when it fails without raising.
None == ""

\* How reading one file can go wrong: "unreadable" (no read permission),
\* "ioerror" (the read fails), "vanished" (removed by someone else after the
\* directory was listed), "vanished_late" (removed after the caller's isfile
\* check).
HashFaults == {"unreadable", "ioerror", "vanished", "vanished_late"}

\* duplicate_utils.calculate_md5(filepath)
DuCalculateMd5(f, filepath, fault) ==
    IF ~IsFile(f, filepath) THEN [value |-> None, raised |-> TRUE]
    ELSE IF fault = "unreadable" THEN [value |-> None, raised |-> TRUE]
    ELSE IF fault = "ioerror" THEN [value |-> None, raised |-> FALSE]
    ELSE [value |-> Md5(ReadFile(f, filepath)), raised |-> FALSE]

\* file_unique.calculate_md5(filepath): IOError and PermissionError are caught.
FuCalculateMd5(f, filepath, fault) ==
    IF ~IsFile(f, filepath) \/ fault \in {"unreadable", "ioerror"}
    THEN [value |-> None, raised |-> FALSE]
    ELSE [value |-> Md5(ReadFile(f, filepath)), raised |-> FALSE]

\* utils.calculate_md5(file_path) and media_organizer.file_utils.calculate_md5:
\* nothing is caught.
UtilsCalculateMd5(f, file_path, fault) ==
    IF ~IsFile(f, file_path) \/ fault \in {"unreadable", "ioerror"}
    THEN [value |-> None, raised |-> TRUE]
    ELSE [value |-> Md5(ReadFile(f, file_path)), raised |-> FALSE]

\* The file system once a file that vanishes at this point is gone.
Vanish(f, p, fault, when) == IF fault = when /\ p \in DOMAIN f THEN Remove(f, p) ELSE f

\* md5_groups[md5].append(filepath) on a dict that keeps insertion order: a
\* sequence of [md5, files].
AddToGroup(md5_groups, md5, filepath) ==
    IF \E i \in DOMAIN md5_groups : md5_groups[i].md5 = md5
    THEN [i \in DOMAIN md5_groups |->
             IF md5_groups[i].md5 = md5
             THEN [md5 |-> md5, files |-> Append(md5_groups[i].files, filepath)]
             ELSE md5_groups[i]]
    ELSE Append(md5_groups, [md5 |-> md5, files |-> <<filepath>>])

MoreThanOne(g) == Len(g.files) > 1

\* {k: v for k, v in md5_groups.items() if len(v) > 1}
OnlyDuplicates(md5_groups) == SelectSeq(md5_groups, MoreThanOne)

RECURSIVE FindLoop(_, _, _, _, _, _)
\* duplicate_utils.find_duplicate_files: process_file on the i-th path on.
FindLoop(f, order, i, file_types, faults, md5_groups) ==
    IF i > Len(order)
    THEN [fs |-> f, groups |-> OnlyDuplicates(md5_groups), raised |-> FALSE]
    ELSE
      LET filepath == order[i]
          f1 == Vanish(f, filepath, faults[filepath], "vanished")
      IN  IF ~IsFile(f1, filepath)
          THEN FindLoop(f1, order, i + 1, file_types, faults, md5_groups)
          ELSE IF /\ file_types # NoFilter
                  /\ Lower(SplitExt(filepath)[2]) \notin file_types
          THEN FindLoop(f1, order, i + 1, file_types, faults, md5_groups)
          ELSE
            LET f2 == Vanish(f1, filepath, faults[filepath], "vanished_late")
                h == DuCalculateMd5(f2, filepath, faults[filepath])
            IN  IF h.raised
                THEN [fs |-> f2, groups |-> <<>>, raised |-> TRUE]
                ELSE IF h.value # None
                THEN FindLoop(f2, order, i + 1, file_types, faults,
                              AddToGroup(md5_groups, h.value, filepath))
                ELSE FindLoop(f2, order, i + 1, file_types, faults, md5_groups)

\* duplicate_utils.find_duplicate_files(directory, file_types, recursive), the
\* walk or the listing yielding the paths in the given order.
FindDuplicateFiles(f, order, file_types, faults) ==
    FindLoop(f, order, 1, file_types, faults, <<>>)

RECURSIVE UniqueFindLoop(_, _, _, _, _)
\* file_unique.find_duplicate_files, from the i-th name of the listing on.
UniqueFindLoop(f, order, i, faults, md5_groups) ==
    IF i > Len(order)
    THEN [fs |-> f, groups |-> OnlyDuplicates(md5_groups), raised |-> FALSE]
    ELSE
      LET filepath == order[i]
          f1 == Vanish(f, filepath, faults[filepath], "vanished")
      IN  IF ~IsFile(f1, filepath)
          THEN UniqueFindLoop(f1, order, i + 1, faults, md5_groups)
          ELSE
            LET f2 == Vanish(f1, filepath, faults[filepath], "vanished_late")
                h == FuCalculateMd5(f2, filepath, faults[filepath])
            IN  IF h.value # None
                THEN UniqueFindLoop(f2, order, i + 1, faults,
                                    AddToGroup(md5_groups, h.value, filepath))
                ELSE UniqueFindLoop(f2, order, i + 1, faults, md5_groups)

\* file_unique.find_duplicate_files(directory)
UniqueFindDuplicateFiles(f, order, faults) == UniqueFindLoop(f, order, 1, faults, <<>>)

-----------------------------------------------------------------------------
(* Deleting duplicates. The log lines are the code's, their words in       *)
(* English.                                                                *)

\* "[模拟] 将删除: " in duplicate_utils, "[SIMULATE] 将删除: " in file_unique
DuSimulatePrefix == "[simulate] will delete: "

FuSimulatePrefix == "[SIMULATE] will delete: "

\* "已删除: "
DeletedPrefix == "deleted: "

\* "删除失败 "
FailedPrefix == "delete failed "

\* " (保留 {keeper})"
Kept(keeper) == " (keep " \o keeper \o ")"

\* str(e) of the OSError os.remove raises.
PermissionDenied(p) == "[Errno 13] Permission denied: '" \o p \o "'"

NoSuchFile(p) == "[Errno 2] No such file or directory: '" \o p \o "'"

\* A list as delete_duplicates is given it, kept in discovery order.
Unsorted(file_list) == file_list

\* sorted(file_list)
Sorted(file_list) == SortSeq(file_list, StrLess)

\* A step that removes the file whether or not the run is a simulation.
DeleteStepAlways(f, log, filepath, keeper, simulate, failing, prefix) ==
    [fs |-> IF filepath \in DOMAIN f /\ filepath \notin failing
            THEN Remove(f, filepath) ELSE f,
     log |-> Append(log, (IF simulate THEN prefix ELSE DeletedPrefix)
                             \o filepath \o Kept(keeper))]

\* A step that logs nothing when the run is a simulation.
DeleteStepQuiet(f, log, filepath, keeper, simulate, failing, prefix) ==
    IF simulate THEN [fs |-> f, log |-> log]
    ELSE IF filepath \notin DOMAIN f
    THEN [fs |-> f,
          log |-> Append(log, FailedPrefix \o filepath \o ": " \o NoSuchFile(filepath))]
    ELSE IF filepath \in failing
    THEN [fs |-> f,
          log |-> Append(log, FailedPrefix \o filepath \o ": "
                                  \o PermissionDenied(filepath))]
    ELSE [fs |-> Remove(f, filepath),
          log |-> Append(log, DeletedPrefix \o filepath \o Kept(keeper))]

\* The body of delete_duplicates' inner loop for one path: os.remove raises
\* for a path that is gone and for one in failing.
DeleteStep(f, log, filepath, keeper, simulate, failing, prefix) ==
    IF simulate
    THEN [fs |-> f, log |-> Append(log, prefix \o filepath \o Kept(keeper))]
    ELSE IF filepath \notin DOMAIN f
    THEN [fs |-> f,
          log |-> Append(log, FailedPrefix \o filepath \o ": " \o NoSuchFile(filepath))]
    ELSE IF filepath \in failing
    THEN [fs |-> f,
          log |-> Append(log, FailedPrefix \o filepath \o ": "
                                  \o PermissionDenied(filepath))]
    ELSE [fs |-> Remove(f, filepath),
          log |-> Append(log, DeletedPrefix \o filepath \o Kept(keeper))]

RECURSIVE DeleteFilesStop(_, _, _, _, _, _, _, _)
\* A loop over the group that gives up at the first removal that fails.
DeleteFilesStop(f, log, sorted_files, j, keeper, simulate, failing, prefix) ==
    IF j > Len(sorted_files) THEN [fs |-> f, log |-> log]
    ELSE
      LET st == DeleteStep(f, log, sorted_files[j], keeper, simulate, failing, prefix)
      IN  IF ~simulate /\ st.fs = f THEN st
          ELSE DeleteFilesStop(st.fs, st.log, sorted_files, j + 1, keeper, simulate,
                               failing, prefix)

RECURSIVE DeleteFiles(_, _, _, _, _, _, _, _)
\* for filepath in sorted_files[1:], from the j-th path on.
DeleteFiles(f, log, sorted_files, j, keeper, simulate, failing, prefix) ==
    IF j > Len(sorted_files) THEN [fs |-> f, log |-> log]
    ELSE
      LET st == DeleteStep(f, log, sorted_files[j], keeper, simulate, failing, prefix)
      IN  DeleteFiles(st.fs, st.log, sorted_files, j + 1, keeper, simulate, failing,
                      prefix)

RECURSIVE DeleteGroups(_, _, _, _, _, _, _)
\* for md5, file_list in duplicates.items(), from the g-th group on.
DeleteGroups(f, log, duplicates, g, simulate, failing, prefix) ==
    IF g > Len(duplicates) THEN [fs |-> f, log |-> log]
    ELSE
      LET sorted_files == Sorted(duplicates[g].files)
          keeper == sorted_files[1]
          d == DeleteFiles(f, log, sorted_files, 2, keeper, simulate, failing, prefix)
      IN  DeleteGroups(d.fs, d.log, duplicates, g + 1, simulate, failing, prefix)

\* duplicate_utils.delete_duplicates(duplicates, simulate)
DeleteDuplicates(f, duplicates, simulate, failing) ==
    DeleteGroups(f, <<>>, duplicates, 1, simulate, failing, DuSimulatePrefix)

\* file_unique.delete_duplicates(duplicates, simulate)
UniqueDeleteDuplicates(f, duplicates, simulate, failing) ==
    DeleteGroups(f, <<>>, duplicates, 1, simulate, failing, FuSimulatePrefix)

-----------------------------------------------------------------------------
(* Deduplication in place, as the organizer pipelines do it.               *)

RECURSIVE RemoveAll(_, _, _, _, _)
\* for dup in duplicates: os.remove(dup), nothing caught.
RemoveAll(f, duplicates, i, failing, removed) ==
    IF i > Len(duplicates) THEN [fs |-> f, removed |-> removed, raised |-> FALSE]
    ELSE IF duplicates[i] \notin DOMAIN f \/ duplicates[i] \in failing
    THEN [fs |-> f, removed |-> removed, raised |-> TRUE]
    ELSE RemoveAll(Remove(f, duplicates[i]), duplicates, i + 1, failing,
                   Append(removed, duplicates[i]))

RECURSIVE OrganizerDedupScan(_, _, _, _, _, _)
\* FileOrganizer.deduplicate_files: the loop over os.listdir(folder), from the
\* i-th name on. md5_dict is the set of its keys.
OrganizerDedupScan(f, order, i, faults, md5_dict, duplicates) ==
    IF i > Len(order) THEN [fs |-> f, duplicates |-> duplicates, raised |-> FALSE]
    ELSE
      LET file_path == order[i]
          f1 == Vanish(f, file_path, faults[file_path], "vanished")
      IN  IF ~IsFile(f1, file_path)
          THEN OrganizerDedupScan(f1, order, i + 1, faults, md5_dict, duplicates)
          ELSE
            LET f2 == Vanish(f1, file_path, faults[file_path], "vanished_late")
                h == UtilsCalculateMd5(f2, file_path, faults[file_path])
            IN  IF h.raised
                THEN [fs |-> f2, duplicates |-> duplicates, raised |-> TRUE]
                ELSE IF h.value \in md5_dict
                THEN OrganizerDedupScan(f2, order, i + 1, faults, md5_dict,
                                        Append(duplicates, file_path))
                ELSE OrganizerDedupScan(f2, order, i + 1, faults,
                                        md5_dict \cup {h.value}, duplicates)

\* FileOrganizer.deduplicate_files(folder)
OrganizerDeduplicateFiles(f, order, faults, failing) ==
    LET sc == OrganizerDedupScan(f, order, 1, faults, {}, <<>>)
    IN  IF sc.raised THEN [fs |-> sc.fs, removed |-> <<>>, raised |-> TRUE]
        ELSE RemoveAll(sc.fs, sc.duplicates, 1, failing, <<>>)

RECURSIVE DirectoryDedupScan(_, _, _, _, _)
\* media_organizer.file_utils.deduplicate_directory: the loop over os.walk,
\* from the i-th file on. No isfile check: every name the walk lists is hashed.
DirectoryDedupScan(f, order, i, faults, md5_dict) ==
    IF i > Len(order) THEN [fs |-> f, md5_dict |-> md5_dict, raised |-> FALSE]
    ELSE
      LET file_path == order[i]
          f1 == Vanish(Vanish(f, file_path, faults[file_path], "vanished"),
                       file_path, faults[file_path], "vanished_late")
          h == UtilsCalculateMd5(f1, file_path, faults[file_path])
      IN  IF h.raised THEN [fs |-> f1, md5_dict |-> md5_dict, raised |-> TRUE]
          ELSE DirectoryDedupScan(f1, order, i + 1, faults,
                                  AddToGroup(md5_dict, h.value, file_path))

RECURSIVE DirectoryDedupRemove(_, _, _, _, _)
\* for md5_value, paths in md5_dict.items(): remove paths[1:], from the g-th
\* group on.
DirectoryDedupRemove(f, md5_dict, g, failing, removed) ==
    IF g > Len(md5_dict) THEN [fs |-> f, removed |-> removed, raised |-> FALSE]
    ELSE
      LET r == RemoveAll(f, Tail(md5_dict[g].files), 1, failing, removed)
      IN  IF r.raised THEN r
          ELSE DirectoryDedupRemove(r.fs, md5_dict, g + 1, failing, r.removed)

\* media_organizer.file_utils.deduplicate_directory(directory)
DeduplicateDirectory(f, order, faults, failing) ==
    LET sc == DirectoryDedupScan(f, order, 1, faults, <<>>)
    IN  IF sc.raised THEN [fs |-> sc.fs, removed |-> <<>>, raised |-> TRUE]
        ELSE DirectoryDedupRemove(sc.fs, sc.md5_dict, 1, failing, <<>>)

-----------------------------------------------------------------------------
(* The deduplication state machine: a directory t holding up to            *)
(* MaxTreeFiles entries, indexed and cleaned by duplicate_utils or          *)
(* file_unique, or deduplicated in place by the organizer pipelines.        *)

MaxTreeFiles == 3

ScanDir == "t"

Contents == {"X", "Y"}

\* The regular files the directory can hold.
TreeFiles == {"t/b.txt", "t/c.txt", "t/d.jpg", "t/s/b.txt"}

\* The symbolic links it can hold.
TreeLinks == ("t/a.txt" :> Link("t/c.txt"))

NoIndex == [by |-> "none", groups |-> <<>>, recursive |-> FALSE,
            file_types |-> NoFilter, clean |-> TRUE, fresh |-> FALSE]

NoDedup == [op |-> "none", raised |-> FALSE, simulate |-> FALSE, failing |-> {},
            faulty |-> {}, fresh |-> FALSE, log |-> <<>>, removed |-> <<>>]

InitDedup ==
    /\ \E S \in SUBSET (TreeFiles \cup DOMAIN TreeLinks), content \in [TreeFiles -> Contents] :
          /\ Cardinality(S) <= MaxTreeFiles
          /\ fs = Tree([p \in TreeFiles \cup DOMAIN TreeLinks |->
                           IF p \in TreeFiles THEN File(content[p]) ELSE TreeLinks[p]], S)
                    @@ (ScanDir :> Dir)
    /\ pre = fs
    /\ last = NoDedup
    /\ index = NoIndex
    /\ calls = 0

\* At most one of the files met by a scan fails to be read.
HashFaultChoices(f, F) ==
    {[p \in F |-> "ok"]}
        \cup {[p \in F |-> IF p = q THEN k ELSE "ok"] :
                 q \in {p \in F : f[p].kind # "dir"}, k \in HashFaults}

Range(s) == {s[i] : i \in DOMAIN s}

\* The paths delete_duplicates will try to remove.
Candidates(groups) ==
    UNION {Range(Tail(Sorted(groups[g].files))) : g \in DOMAIN groups}

Built(by, r, recursive, file_types, faults) ==
    [by |-> by, groups |-> r.groups, recursive |-> recursive,
     file_types |-> file_types, clean |-> Faulty(faults) = {}, fresh |-> TRUE]

Scanned(op, r, faults, failing, removed) ==
    [op |-> op, raised |-> r.raised, simulate |-> FALSE, failing |-> failing,
     faulty |-> Faulty(faults), fresh |-> FALSE, log |-> <<>>, removed |-> removed]

Deleted(op, r, simulate, failing) ==
    [op |-> op, raised |-> FALSE, simulate |-> simulate, failing |-> failing,
     faulty |-> {}, fresh |-> index.fresh, log |-> r.log, removed |-> <<>>]

\* duplicate_utils.find_duplicate_files(ScanDir, file_types, recursive)
FindDuplicates ==
    /\ last.op = "none"
    /\ \E recursive \in BOOLEAN, file_types \in {NoFilter, {".txt"}} :
       \E order \in (IF recursive THEN WalkOrders(fs, ScanDir)
                     ELSE Orders(Listdir(fs, ScanDir))) :
       \E faults \in HashFaultChoices(fs, Range(order)) :
          LET r == FindDuplicateFiles(fs, order, file_types, faults)
          IN  /\ fs' = r.fs
              /\ index' = Built("duplicate_utils", r, recursive, file_types, faults)
              /\ last' = Scanned("find_duplicate_files", r, faults, {}, <<>>)
    /\ pre' = fs
    /\ UNCHANGED calls

\* file_unique.find_duplicate_files(ScanDir)
UniqueFindDuplicates ==
    /\ last.op = "none"
    /\ \E order \in Orders(Listdir(fs, ScanDir)) :
       \E faults \in HashFaultChoices(fs, Range(order)) :
          LET r == UniqueFindDuplicateFiles(fs, order, faults)
          IN  /\ fs' = r.fs
              /\ index' = Built("file_unique", r, FALSE, NoFilter, faults)
              /\ last' = Scanned("find_duplicate_files", r, faults, {}, <<>>)
    /\ pre' = fs
    /\ UNCHANGED calls

\* duplicate_utils.delete_duplicates(index, simulate)
DeleteDuplicatesCall ==
    /\ index.by = "duplicate_utils"
    /\ ~last.raised
    /\ last.op = "find_duplicate_files" \/ last.fresh
    /\ \E simulate \in BOOLEAN, failing \in SUBSET Candidates(index.groups) :
          /\ simulate => failing = {}
          /\ LET r == DeleteDuplicates(fs, index.groups, simulate, failing)
             IN  /\ fs' = r.fs
                 /\ last' = Deleted("delete_duplicates", r, simulate, failing)
    /\ index' = [index EXCEPT !.fresh = index.fresh /\ last'.simulate]
    /\ pre' = fs
    /\ UNCHANGED calls

\* file_unique.delete_duplicates(index, simulate)
UniqueDeleteDuplicatesCall ==
    /\ index.by = "file_unique"
    /\ ~last.raised
    /\ last.op = "find_duplicate_files" \/ last.fresh
    /\ \E simulate \in BOOLEAN, failing \in SUBSET Candidates(index.groups) :
          /\ simulate => failing = {}
          /\ LET r == UniqueDeleteDuplicates(fs, index.groups, simulate, failing)
             IN  /\ fs' = r.fs
                 /\ last' = Deleted("delete_duplicates", r, simulate, failing)
    /\ index' = [index EXCEPT !.fresh = index.fresh /\ last'.simulate]
    /\ pre' = fs
    /\ UNCHANGED calls

\* FileOrganizer.deduplicate_files(ScanDir)
OrganizerDeduplicate ==
    /\ last.op = "none"
    /\ \E order \in Orders(Listdir(fs, ScanDir)) :
       \E faults \in HashFaultChoices(fs, Range(order)), failing \in SUBSET Range(order) :
          /\ Cardinality(failing) <= 1
          /\ Faulty(faults) = {} \/ failing = {}
          /\ LET r == OrganizerDeduplicateFiles(fs, order, faults, failing)
             IN  /\ fs' = r.fs
                 /\ last' = Scanned("deduplicate_files", r, faults, failing, r.removed)
    /\ pre' = fs
    /\ UNCHANGED <<index, calls>>

\* media_organizer.file_utils.deduplicate_directory(ScanDir)
DeduplicateDirectoryCall ==
    /\ last.op = "none"
    /\ \E order \in WalkOrders(fs, ScanDir) :
       \E faults \in HashFaultChoices(fs, Range(order)), failing \in SUBSET Range(order) :
          /\ Cardinality(failing) <= 1
          /\ Faulty(faults) = {} \/ failing = {}
          /\ LET r == DeduplicateDirectory(fs, order, faults, failing)
             IN  /\ fs' = r.fs
                 /\ last' = Scanned("deduplicate_directory", r, faults, failing,
                                    r.removed)
    /\ pre' = fs
    /\ UNCHANGED <<index, calls>>

NextDedup ==
    \/ FindDuplicates
    \/ UniqueFindDuplicates
    \/ DeleteDuplicatesCall
    \/ UniqueDeleteDuplicatesCall
    \/ OrganizerDeduplicate
    \/ DeduplicateDirectoryCall

SpecDedup == InitDedup /\ [][NextDedup]_vars

-----------------------------------------------------------------------------
(* Claims about deduplication.                                             *)

\* The lexicographically smallest of a set of paths.
MinPath(S) == CHOOSE p \in S : \A q \in S \ {p} : StrLess(p, q)

GroupPaths(g) == Range(index.groups[g].files)

\* The paths of the index that are not the smallest of their group.
NonKeepers == UNION {GroupPaths(g) \ {MinPath(GroupPaths(g))} : g \in DOMAIN index.groups}

StartsWith(line, prefix) ==
    Len(line) >= Len(prefix) /\ SubSeq(line, 1, Len(prefix)) = prefix

Strip(line, prefix) == SubSeq(line, Len(prefix) + 1, Len(line))

SimulatePrefix ==
    IF index.by = "duplicate_utils" THEN DuSimulatePrefix ELSE FuSimulatePrefix

\* The log line of a removal that succeeded.
DeletedEntry(p, k) == DeletedPrefix \o p \o Kept(k)

\* A log line reporting that removing p failed, with a reason.
IsFailureEntry(line, p) ==
    /\ StartsWith(line, FailedPrefix \o p \o ": ")
    /\ Len(line) > Len(FailedPrefix \o p \o ": ")

\* A log line about p, of any kind.
IsEntryOf(line, p) ==
    \/ StartsWith(line, DeletedPrefix \o p \o " ")
    \/ StartsWith(line, SimulatePrefix \o p \o " ")
    \/ StartsWith(line, FailedPrefix \o p \o ":")

RealDelete == last.op = "delete_duplicates" /\ ~last.simulate

SimulatedDelete == last.op = "delete_duplicates" /\ last.simulate

\* C3: delete_duplicates(index, simulate=False) keeps in every group exactly
\* the lexicographically smallest path, untouched, and treats every other path
\* of the group as a removal candidate (removed, or logged as failed),
\* whatever the order of the paths in the group's list.
C3_KeepsSmallestPath ==
    RealDelete =>
        \A g \in DOMAIN index.groups :
            LET k == MinPath(GroupPaths(g))
            IN  /\ k \in DOMAIN fs /\ k \in DOMAIN pre /\ fs[k] = pre[k]
                /\ \A p \in GroupPaths(g) \ {k} :
                      /\ p \notin last.failing => p \notin DOMAIN fs
                      /\ \E i \in DOMAIN last.log :
                            \/ last.log[i] = DeletedEntry(p, k)
                            \/ IsFailureEntry(last.log[i], p)

\* A group listed with a path other than its smallest first has been cleaned:
\* the smallest is there, the first listed is gone.
C3_Witness ==
    /\ RealDelete
    /\ last.failing = {}
    /\ \E g \in DOMAIN index.groups :
          /\ index.groups[g].files[1] # MinPath(GroupPaths(g))
          /\ MinPath(GroupPaths(g)) \in DOMAIN fs
          /\ index.groups[g].files[1] \in DOMAIN pre
          /\ index.groups[g].files[1] \notin DOMAIN fs

AllOk(F) == [p \in F |-> "ok"]

InPlaceOrders ==
    IF last.op = "deduplicate_files" THEN Orders(Listdir(pre, ScanDir))
    ELSE WalkOrders(pre, ScanDir)

InPlace(order) ==
    IF last.op = "deduplicate_files"
    THEN OrganizerDeduplicateFiles(pre, order, AllOk(Range(order)), {})
    ELSE DeduplicateDirectory(pre, order, AllOk(Range(order)), {})

\* C4: for FileOrganizer.deduplicate_files and deduplicate_directory the
\* files that survive are the same for every order in which the listing or
\* the walk discovers the files.
C4_KeeperDeterministic ==
    /\ last.op \in {"deduplicate_files", "deduplicate_directory"}
    /\ ~last.raised /\ last.faulty = {} /\ last.failing = {}
    => \A order \in InPlaceOrders : InPlace(order).fs = fs

\* C5: delete_duplicates(index, simulate=True) changes nothing in the file
\* system: the files and their contents after the call are those before it.
C5_SimulateChangesNothing == SimulatedDelete => fs = pre

\* A simulation that had decisions to log.
C5_Witness == SimulatedDelete /\ Len(last.log) > 0 /\ fs = pre

\* The log of delete_duplicates(index, simulate=False) on the file system and
\* the index the simulation was given, no removal failing.
RealLog ==
    IF index.by = "duplicate_utils"
    THEN DeleteDuplicates(pre, index.groups, FALSE, {}).log
    ELSE UniqueDeleteDuplicates(pre, index.groups, FALSE, {}).log

Scope(f, recursive, file_types) ==
    {p \in (IF recursive THEN WalkFiles(f, ScanDir) ELSE Listdir(f, ScanDir)) :
        /\ IsFile(f, p)
        /\ file_types = NoFilter \/ Lower(SplitExt(p)[2]) \in file_types}

OneFilePerContent(recursive, file_types) ==
    LET before == Scope(pre, recursive, file_types)
        after == Scope(fs, recursive, file_types)
        contents == {ReadFile(pre, p) : p \in before}
    IN  /\ \A p, q \in after : p # q => ReadFile(fs, p) # ReadFile(fs, q)
        /\ \A c \in contents : Cardinality({p \in after : ReadFile(fs, p) = c}) = 1
        /\ Cardinality(DOMAIN pre \ DOMAIN fs)
              = Cardinality(before) - Cardinality(contents)

\* C7: after find_duplicate_files and delete_duplicates(simulate=False) with
\* nothing failing, and after FileOrganizer.deduplicate_files, no two files in
\* the scanned scope have the same content, every content present before is
\* present in exactly one file, and the number of files removed is the number
\* of files minus the number of distinct contents.
C7_OneFilePerContent ==
    /\ RealDelete /\ last.failing = {} /\ last.fresh /\ index.clean
          => OneFilePerContent(index.recursive, index.file_types)
    /\ last.op = "deduplicate_files" /\ ~last.raised /\ last.faulty = {}
          /\ last.failing = {}
          => OneFilePerContent(FALSE, NoFilter)

\* C8: in delete_duplicates(index, simulate=False) a failing removal does not
\* stop processing: for every set of failing removals the log holds exactly
\* one entry per non-keeper path of every group, the entry of a path whose
\* removal failed is a failure entry with the reason, and every non-keeper
\* path whose removal did not fail is removed.
C8_FailureDoesNotStop ==
    RealDelete =>
        /\ Len(last.log) = Cardinality(NonKeepers)
        /\ \A p \in NonKeepers :
              /\ Cardinality({i \in DOMAIN last.log : IsEntryOf(last.log[i], p)}) = 1
              /\ p \in last.failing \/ p \notin DOMAIN pre
                    => /\ \E i \in DOMAIN last.log : IsFailureEntry(last.log[i], p)
                       /\ p \in DOMAIN pre => p \in DOMAIN fs
              /\ p \notin last.failing /\ p \in DOMAIN pre
                    => /\ p \notin DOMAIN fs
                       /\ \E i \in DOMAIN last.log : StartsWith(last.log[i], DeletedPrefix)
                                                       /\ IsEntryOf(last.log[i], p)

\* A removal failed and a path that comes after it in the same group was
\* removed all the same.
C8_Witness ==
    /\ RealDelete
    /\ \E g \in DOMAIN index.groups :
       \E p, q \in GroupPaths(g) \ {MinPath(GroupPaths(g))} :
          /\ StrLess(p, q)
          /\ p \in last.failing /\ p \in DOMAIN fs
          /\ q \in DOMAIN pre /\ q \notin DOMAIN fs

\* C9: when fingerprinting one file fails, the index build and the
\* organizer's dedup stage skip that file, leave it out of every group and go
\* on with the other files; the failure never aborts the run.
C9_FingerprintFailureSkipped ==
    /\ last.op \in {"find_duplicate_files", "deduplicate_files"}
    /\ last.faulty # {}
    => /\ ~last.raised
       /\ \A g \in DOMAIN index.groups : GroupPaths(g) \cap last.faulty = {}

-----------------------------------------------------------------------------
(* Capture times: the strings cameras write, and datetime.                 *)

Digits == "0123456789"

IsDigit(c) == \E i \in 1..Len(Digits) : Ch(Digits, i) = c

RECURSIVE IsDigitsFrom(_, _)
IsDigitsFrom(s, i) == i > Len(s) \/ (IsDigit(Ch(s, i)) /\ IsDigitsFrom(s, i + 1))

\* str.isdigit()
IsDigits(s) == Len(s) > 0 /\ IsDigitsFrom(s, 1)

DigitValue(c) == (CHOOSE i \in 1..Len(Digits) : Ch(Digits, i) = c) - 1

RECURSIVE Int(_)
\* int(s) of a string of digits.
Int(s) ==
    IF Len(s) = 0 THEN 0
    ELSE 10 * Int(SubSeq(s, 1, Len(s) - 1)) + DigitValue(Ch(s, Len(s)))

RECURSIVE Find(_, _, _)
\* str.find(c, from), 1-based; 0 when c does not occur.
Find(s, c, from) ==
    IF from > Len(s) THEN 0
    ELSE IF Ch(s, from) = c THEN from
    ELSE Find(s, c, from + 1)

\* A datetime object.
DateTime(year, month, day, hour, minute, second) ==
    [year |-> year, month |-> month, day |-> day,
     hour |-> hour, minute |-> minute, second |-> second]

IsLeap(year) == year % 4 = 0 /\ (year % 100 # 0 \/ year % 400 = 0)

DaysInMonth(year, month) ==
    IF month = 2 THEN (IF IsLeap(year) THEN 29 ELSE 28)
    ELSE IF month \in {4, 6, 9, 11} THEN 30 ELSE 31

\* The directives of a strptime format; every other token of a format is a
\* literal character, and " " is one or more spaces.
Directives == {"%Y", "%m", "%d", "%H", "%M", "%S", "%f"}

\* The lengths the regular expression of a token tries, in its order.
TokenLengths(tok) ==
    CASE tok = "%Y" -> <<4>>
      [] tok = "%f" -> <<6, 5, 4, 3, 2, 1>>
      [] tok \in Directives -> <<2, 1>>
      [] tok = " " -> <<3, 2, 1>>
      [] OTHER -> <<1>>

RECURSIVE IsSpacesFrom(_, _)
IsSpacesFrom(s, i) == i > Len(s) \/ (Ch(s, i) = " " /\ IsSpacesFrom(s, i + 1))

\* Whether text is what the regular expression of the token accepts, as in
\* _strptime.TimeRE: m is 1[0-2]|0[1-9]|[1-9], d is 3[0-1]|[1-2]\d|0[1-9]|[1-9]| [1-9],
\* H is 2[0-3]|[0-1]\d|\d, M is [0-5]\d|\d, S is 6[0-1]|[0-5]\d|\d.
TokenAccepts(tok, text) ==
    CASE tok = " " -> IsSpacesFrom(text, 1)
      [] tok = "%d" /\ Len(text) = 2 /\ Ch(text, 1) = " " ->
            IsDigit(Ch(text, 2)) /\ Ch(text, 2) # "0"
      [] tok \in Directives ->
            /\ IsDigits(text)
            /\ CASE tok = "%m" -> Int(text) \in 1..12
                 [] tok = "%d" -> Int(text) \in 1..31
                 [] tok = "%H" -> Int(text) \in 0..23
                 [] tok = "%M" -> Int(text) \in 0..59
                 [] tok = "%S" -> Int(text) \in 0..61
                 [] OTHER -> TRUE
      [] OTHER -> text = tok

NoMatch == [ok |-> FALSE, end |-> 0, got |-> <<>>]

\* The element of a set of one.
Only(S) == CHOOSE v \in S : TRUE

RECURSIVE MatchFrom(_, _, _, _, _)
RECURSIVE TryToken(_, _, _, _, _, _)
\* re.match of the format's regular expression from character i on, token k
\* on: the first match in backtracking order, [ok, end, got].
MatchFrom(s, i, fmt, k, got) ==
    IF k > Len(fmt) THEN [ok |-> TRUE, end |-> i, got |-> got]
    ELSE TryToken(s, i, fmt, k, got, 1)

TryToken(s, i, fmt, k, got, j) ==
    IF j > Len(TokenLengths(fmt[k])) THEN NoMatch
    ELSE IF /\ i + TokenLengths(fmt[k])[j] - 1 <= Len(s)
            /\ TokenAccepts(fmt[k], SubSeq(s, i, i + TokenLengths(fmt[k])[j] - 1))
    THEN Only({IF r.ok THEN r ELSE TryToken(s, i, fmt, k, got, j + 1) :
               r \in {MatchFrom(s, i + TokenLengths(fmt[k])[j], fmt, k + 1,
                                IF fmt[k] \in Directives
                                THEN got @@ (fmt[k] :>
                                         SubSeq(s, i, i + TokenLengths(fmt[k])[j] - 1))
                                ELSE got)}})
    ELSE TryToken(s, i, fmt, k, got, j + 1)

\* int() of a matched field; the day may come with a leading space.
FieldValue(got, tok) ==
    IF tok \notin DOMAIN got THEN 0
    ELSE IF Ch(got[tok], 1) = " " THEN Int(SubSeq(got[tok], 2, Len(got[tok])))
    ELSE Int(got[tok])

\* The datetime of the matched fields: the whole string has to be matched,
\* the date has to exist and the second is at most 59. Microseconds are left
\* out of dt.
MatchedTime(s, r) ==
    IF ~r.ok \/ r.end # Len(s) + 1
    THEN [ok |-> FALSE, dt |-> DateTime(0, 0, 0, 0, 0, 0)]
    ELSE IF \/ FieldValue(r.got, "%Y") < 1
            \/ FieldValue(r.got, "%d")
                   > DaysInMonth(FieldValue(r.got, "%Y"), FieldValue(r.got, "%m"))
            \/ FieldValue(r.got, "%S") > 59
    THEN [ok |-> FALSE, dt |-> DateTime(0, 0, 0, 0, 0, 0)]
    ELSE [ok |-> TRUE,
          dt |-> DateTime(FieldValue(r.got, "%Y"), FieldValue(r.got, "%m"),
                          FieldValue(r.got, "%d"), FieldValue(r.got, "%H"),
                          FieldValue(r.got, "%M"), FieldValue(r.got, "%S"))]

\* datetime.strptime(s, fmt): [ok, dt]; ~ok is ValueError.
StrptimeFormat(s, fmt) ==
    Only({MatchedTime(s, r) : r \in {MatchFrom(s, 1, fmt, 1, <<>>)}})

\* "%Y:%m:%d %H:%M:%S"
ExifFormat == <<"%Y", ":", "%m", ":", "%d", " ", "%H", ":", "%M", ":", "%S">>

\* datetime.strptime(dt_str, "%Y:%m:%d %H:%M:%S")
Strptime(dt_str) == StrptimeFormat(dt_str, ExifFormat)

\* "%02d" % n
Pad2(n) == IF n < 10 THEN "0" \o Str(n) ELSE Str(n)

\* "%04d" % n
Pad4(n) ==
    IF n < 10 THEN "000" \o Str(n)
    ELSE IF n < 100 THEN "00" \o Str(n)
    ELSE IF n < 1000 THEN "0" \o Str(n)
    ELSE Str(n)

\* dt.strftime("%Y%m%d")
StrftimeDate(dt) == Pad4(dt.year) \o Pad2(dt.month) \o Pad2(dt.day)

\* dt.strftime("%H%M%S")
StrftimeTime(dt) == Pad2(dt.hour) \o Pad2(dt.minute) \o Pad2(dt.second)

\* dt.strftime("%Y%m%d_%H%M%S")
Strftime(dt) == StrftimeDate(dt) \o "_" \o StrftimeTime(dt)

\* A file without the DateTimeOriginal tag.
NoExif == "<no exif>"

\* A cleaner that returns the tag's value as it is.
CleanValueRaw(value) == value

\* value.split('.')[0][:19]
CleanValue(value) ==
    LET dot == Find(value, ".", 1)
        head == IF dot = 0 THEN value ELSE SubSeq(value, 1, dot - 1)
    IN  IF Len(head) > 19 THEN SubSeq(head, 1, 19) ELSE head

\* media_utils.get_exif_datetime(image_path) for an image whose
\* DateTimeOriginal tag holds value; unreadable is any failure of Image.open
\* or _getexif, which is caught.
GetExifDatetime(value, unreadable) ==
    IF unreadable \/ value = NoExif THEN None ELSE CleanValue(value)

\* media_utils.format_shooting_time(dt_str): [value, raised].
FormatShootingTime(dt_str) ==
    IF dt_str = None THEN [value |-> None, raised |-> FALSE]
    ELSE LET t == Strptime(dt_str)
         IN  IF t.ok THEN [value |-> Strftime(t.dt), raised |-> FALSE]
             ELSE [value |-> None, raised |-> FALSE]

-----------------------------------------------------------------------------
(* Moving and renaming media files.                                        *)

\* os.path.isdir: follows links.
IsDir(f, p) == Exists(f, p) /\ f[Resolve(f, p)].kind = "dir"

\* os.rename(src, dst) of a file: an existing file at dst is replaced.
\* [fs, raised]
OsRename(f, src, dst) ==
    IF src \notin DOMAIN f \/ (dst \in DOMAIN f /\ f[dst].kind = "dir")
    THEN [fs |-> f, raised |-> TRUE]
    ELSE [fs |-> Put(Remove(f, src), dst, f[src]), raised |-> FALSE]

\* shutil.move(src, dst): into dst when dst is a directory, else os.rename.
ShutilMove(f, src, dst) ==
    IF IsDir(f, dst)
    THEN IF Exists(f, Join(dst, Basename(src)))
         THEN [fs |-> f, raised |-> TRUE]
         ELSE OsRename(f, src, Join(dst, Basename(src)))
    ELSE OsRename(f, src, dst)

RECURSIVE MoveConflictLoop(_, _, _, _, _, _)
\* file_utils.move_file_with_conflict_resolution: while os.path.exists(new_path)
MoveConflictLoop(f, destination_path, base_name, ext, counter, new_path) ==
    IF Exists(f, new_path)
    THEN MoveConflictLoop(f, destination_path, base_name, ext, counter + 1,
                          Join(destination_path, base_name \o "_" \o Str(counter) \o ext))
    ELSE new_path

\* file_utils.move_file_with_conflict_resolution(source_path, destination_path):
\* [fs, new_path, moved]; a failing shutil.move is caught and gives False.
MoveFileWithConflictResolution(f, source_path, destination_path) ==
    LET base_name == SplitExt(Basename(source_path))[1]
        ext == SplitExt(Basename(source_path))[2]
        new_path == MoveConflictLoop(f, destination_path, base_name, ext, 1,
                                     Join(destination_path, base_name \o ext))
        mv == ShutilMove(f, source_path, new_path)
    IN  [fs |-> mv.fs, new_path |-> new_path, moved |-> ~mv.raised]

RECURSIVE TargetNameLoop(_, _, _, _, _)
\* file_utils.create_target_filename: while target_name in existing_files
TargetNameLoop(base_name, ext, existing_files, counter, target_name) ==
    IF target_name \in existing_files
    THEN TargetNameLoop(base_name, ext, existing_files, counter + 1,
                        base_name \o "_" \o Str(counter) \o ext)
    ELSE target_name

\* file_utils.create_target_filename(prefix, dt_obj, ext, existing_files)
CreateTargetFilename(prefix, dt_obj, ext, existing_files) ==
    TargetNameLoop(prefix \o "_" \o dt_obj, ext, existing_files, 1,
                   prefix \o "_" \o dt_obj \o ext)

\* media_utils.IMAGE_EXTENSIONS, VIDEO_EXTENSIONS, MEDIA_EXTENSIONS
IMAGE_EXTENSIONS == {".jpg", ".jpeg", ".png", ".gif", ".bmp", ".tiff", ".webp"}

VIDEO_EXTENSIONS == {".mp4", ".mov", ".avi", ".mkv", ".flv", ".wmv", ".mpeg", ".3gp", ".m4v"}

MEDIA_EXTENSIONS == IMAGE_EXTENSIONS \cup VIDEO_EXTENSIONS

\* re.match(r'^IMG_\d{8}_\d{6}', name) with the given prefix (IMG or VID).
MatchesStandardName(prefix, name) ==
    /\ Len(name) >= 19
    /\ SubSeq(name, 1, 4) = prefix \o "_"
    /\ IsDigits(SubSeq(name, 5, 12))
    /\ Ch(name, 13) = "_"
    /\ IsDigits(SubSeq(name, 14, 19))

-----------------------------------------------------------------------------
(* What a media file holds: its DateTimeOriginal tag, its modification     *)
(* time and, for a video, what the metadata probe does with it. A file's   *)
(* data names a row of the table.                                          *)

CaptureTime == "2023:05:15 14:30:00"

Malformed == "2023:13:45 25:61:61"

ImageTable ==
    [p1 |-> [exif |-> CaptureTime,           mtime |-> DateTime(2021, 3, 4, 5, 6, 7)],
     p2 |-> [exif |-> CaptureTime \o "aa",   mtime |-> DateTime(2022, 8, 9, 10, 11, 12)],
     p3 |-> [exif |-> NoExif,                mtime |-> DateTime(2021, 3, 4, 5, 6, 7)],
     p4 |-> [exif |-> Malformed,             mtime |-> DateTime(2022, 8, 9, 10, 11, 12)],
     p5 |-> [exif |-> CaptureTime,           mtime |-> DateTime(2022, 8, 9, 10, 11, 12)],
     p6 |-> [exif |-> "2022:01:01 10:00:00", mtime |-> DateTime(2024, 2, 3, 4, 5, 6)]]

\* The probe's run on a video: whether it could be started, its exit code
\* and what it printed.
Probe(started, returncode, stdout) ==
    [started |-> started, returncode |-> returncode, stdout |-> stdout]

\* What ffprobe prints for a video that carries the creation_time tag, and
\* for one that does not.
FfprobeTagged == "{\"format\": {\"tags\": {\"creation_time\": \"2023-05-15T14:30:00.000000Z\"}}}"

FfprobeUntagged == "{\"format\": {}}"

VideoTable ==
    [v1 |-> [probe |-> Probe(TRUE, 0, CaptureTime),  mtime |-> DateTime(2021, 3, 4, 5, 6, 7),
             ffprobe |-> Probe(TRUE, 0, FfprobeTagged)],
     v2 |-> [probe |-> Probe(TRUE, 1, ""),           mtime |-> DateTime(2021, 3, 4, 5, 6, 7),
             ffprobe |-> Probe(TRUE, 1, "")],
     v3 |-> [probe |-> Probe(FALSE, 0, ""),          mtime |-> DateTime(2021, 3, 4, 5, 6, 7),
             ffprobe |-> Probe(FALSE, 0, "")],
     v4 |-> [probe |-> Probe(TRUE, 0, "0000:00:00 00:00:00"),
                                                     mtime |-> DateTime(2021, 3, 4, 5, 6, 7),
             ffprobe |-> Probe(TRUE, 0, "garbage")],
     v5 |-> [probe |-> Probe(TRUE, 0, "-"),          mtime |-> DateTime(2021, 3, 4, 5, 6, 7),
             ffprobe |-> Probe(TRUE, 0, FfprobeUntagged)]]

IsImageData(data) == data \in DOMAIN ImageTable

\* The DateTimeOriginal tag PIL / exifread find in the file; a video has none.
ExifOf(f, p) ==
    IF IsImageData(ReadFile(f, p)) THEN ImageTable[ReadFile(f, p)].exif ELSE NoExif

\* os.path.getmtime, as the local datetime.
MtimeOf(f, p) ==
    IF IsImageData(ReadFile(f, p)) THEN ImageTable[ReadFile(f, p)].mtime
    ELSE VideoTable[ReadFile(f, p)].mtime

ProbeOf(f, p) ==
    IF IsImageData(ReadFile(f, p)) THEN Probe(TRUE, 0, "-")
    ELSE VideoTable[ReadFile(f, p)].probe

\* What ffprobe does with the file; a picture has no creation_time tag.
FfprobeOf(f, p) ==
    IF IsImageData(ReadFile(f, p)) THEN Probe(TRUE, 0, FfprobeUntagged)
    ELSE VideoTable[ReadFile(f, p)].ffprobe

\* media_utils.get_video_datetime(filepath): subprocess.run(..., check=True)
\* raises when the probe cannot be started or exits non-zero; both are caught.
GetVideoDatetime(probe) ==
    IF ~probe.started \/ probe.returncode # 0 THEN None
    ELSE IF probe.stdout # "" /\ probe.stdout # "-" THEN CleanValue(probe.stdout)
    ELSE None

\* media_utils.get_media_datetime(filepath)
GetMediaDatetime(f, filepath) ==
    LET ext == Lower(SplitExt(filepath)[2])
    IN  IF ext \in IMAGE_EXTENSIONS THEN GetExifDatetime(ExifOf(f, filepath), FALSE)
        ELSE IF ext \in VIDEO_EXTENSIONS THEN GetVideoDatetime(ProbeOf(f, filepath))
        ELSE None

\* utils.get_creation_time(file_path): the tag when strptime accepts it as it
\* is, else the modification time; any failure of the first is swallowed.
GetCreationTime(f, file_path) ==
    LET dt == ExifOf(f, file_path)
    IN  IF dt # NoExif /\ Strptime(dt).ok THEN Strptime(dt).dt
        ELSE MtimeOf(f, file_path)

-----------------------------------------------------------------------------
(* media_organizer.time_utils: the capture time as a datetime; NoTime is   *)
(* None.                                                                   *)

NoTime == [ok |-> FALSE, dt |-> DateTime(0, 0, 0, 0, 0, 0)]

\* parse_time_string: formats
TimeFormats ==
    << ExifFormat,
       <<"%Y", "-", "%m", "-", "%d", " ", "%H", ":", "%M", ":", "%S">>,
       <<"%Y", "%m", "%d", "_", "%H", "%M", "%S">>,
       <<"%Y", "-", "%m", "-", "%d", "T", "%H", ":", "%M", ":", "%S", ".", "%f", "Z">> >>

\* The time part of an ISO string: HH, HH:MM, HH:MM:SS, with .fff or .ffffff
IsoTime(t) ==
    LET n == Len(t)
        H == SubSeq(t, 1, 2)
        M == SubSeq(t, 4, 5)
        S == SubSeq(t, 7, 8)
        shaped == /\ n \in {2, 5, 8, 12, 15}
                  /\ IsDigits(H)
                  /\ n >= 5 => Ch(t, 3) = ":" /\ IsDigits(M)
                  /\ n >= 8 => Ch(t, 6) = ":" /\ IsDigits(S)
                  /\ n >= 12 => Ch(t, 9) = "." /\ IsDigits(SubSeq(t, 10, n))
    IN  IF ~shaped THEN <<FALSE, 0, 0, 0>>
        ELSE <<TRUE, Int(H), IF n >= 5 THEN Int(M) ELSE 0, IF n >= 8 THEN Int(S) ELSE 0>>

\* datetime.fromisoformat(time_str) for YYYY-MM-DD, alone or followed by one
\* separator character and a time without UTC offset: [ok, dt]; ~ok is
\* ValueError.
FromIsoformat(time_str) ==
    LET Y == SubSeq(time_str, 1, 4)
        m == SubSeq(time_str, 6, 7)
        d == SubSeq(time_str, 9, 10)
        t == IsoTime(SubSeq(time_str, 12, Len(time_str)))
    IN  IF \/ Len(time_str) < 10 \/ Len(time_str) = 11
           \/ ~IsDigits(Y) \/ ~IsDigits(m) \/ ~IsDigits(d)
           \/ Ch(time_str, 5) # "-" \/ Ch(time_str, 8) # "-"
        THEN NoTime
        ELSE IF \/ Int(Y) < 1 \/ Int(m) \notin 1..12
                \/ Int(d) \notin 1..DaysInMonth(Int(Y), Int(m))
        THEN NoTime
        ELSE IF Len(time_str) = 10
        THEN [ok |-> TRUE, dt |-> DateTime(Int(Y), Int(m), Int(d), 0, 0, 0)]
        ELSE IF ~t[1] \/ t[2] > 23 \/ t[3] > 59 \/ t[4] > 59 THEN NoTime
        ELSE [ok |-> TRUE, dt |-> DateTime(Int(Y), Int(m), Int(d), t[2], t[3], t[4])]

\* parse_time_string, lines 88-98: the part before '+' as an ISO string, or
\* None.
ParseFallback(time_str) ==
    LET plus == Find(time_str, "+", 1)
    IN  FromIsoformat(IF plus = 0 THEN time_str ELSE SubSeq(time_str, 1, plus - 1))

RECURSIVE ParseTimeFrom(_, _)
ParseTimeFrom(time_str, k) ==
    IF k > Len(TimeFormats) THEN ParseFallback(time_str)
    ELSE IF StrptimeFormat(time_str, TimeFormats[k]).ok
         THEN StrptimeFormat(time_str, TimeFormats[k])
         ELSE ParseTimeFrom(time_str, k + 1)

\* time_utils.parse_time_string(time_str)
ParseTimeString(time_str) == ParseTimeFrom(time_str, 1)

\* time_utils.get_image_capture_time(file_path): [value, raised]. exifread
\* finds the EXIF DateTimeOriginal tag or no tag.
GetImageCaptureTime(f, file_path) ==
    IF ExifOf(f, file_path) # NoExif
    THEN [value |-> ParseTimeString(ExifOf(f, file_path)), raised |-> FALSE]
    ELSE [value |-> NoTime, raised |-> FALSE]

\* json.loads(stdout) and metadata.get('format', {}).get('tags', {})
\* .get('creation_time'): [ok, creation_time]; ~ok is the JSONDecodeError of
\* an output that is not JSON.
CreationTimeTag(stdout) ==
    CASE stdout = FfprobeTagged ->
             [ok |-> TRUE, creation_time |-> "2023-05-15T14:30:00.000000Z"]
      [] stdout = FfprobeUntagged -> [ok |-> TRUE, creation_time |-> None]
      [] OTHER -> [ok |-> FALSE, creation_time |-> None]

\* time_utils.get_video_capture_time(file_path): [value, raised]. A probe
\* that cannot be started makes subprocess.run raise.
GetVideoCaptureTime(probe) ==
    IF ~probe.started THEN [value |-> NoTime, raised |-> TRUE]
    ELSE IF probe.returncode # 0 THEN [value |-> NoTime, raised |-> FALSE]
    ELSE LET tag == CreationTimeTag(probe.stdout)
         IN  IF ~tag.ok THEN [value |-> NoTime, raised |-> TRUE]
             ELSE IF tag.creation_time = None THEN [value |-> NoTime, raised |-> FALSE]
             ELSE [value |-> ParseTimeString(tag.creation_time), raised |-> FALSE]

\* time_utils.get_capture_time(file_path, media_type): [value, raised]; every
\* exception is caught and gives None.
GetCaptureTime(f, file_path, media_type) ==
    LET r == IF media_type = "images" THEN GetImageCaptureTime(f, file_path)
             ELSE GetVideoCaptureTime(FfprobeOf(f, file_path))
    IN  IF r.raised THEN [value |-> NoTime, raised |-> FALSE] ELSE r

-----------------------------------------------------------------------------
(* Renaming by capture time.                                               *)

\* The names os.listdir(d) returns.
ListNames(f, d) == {Basename(p) : p \in Listdir(f, d)}

\* rename_media's first loop: the listed paths that are files, .DS_Store left out.
CollectFiles(f, order) ==
    SelectSeq(order, LAMBDA p : IsFile(f, p) /\ Basename(p) \notin ignore_list)

\* rename_media, lines 174-186: choose the name among the names the directory
\* holds now, and rename.
RenameOne(f, camera_dir, file_path, prefix, dt_obj, ext) ==
    LET new_name == CreateTargetFilename(prefix, dt_obj, ext, ListNames(f, camera_dir))
    IN  IF Basename(file_path) # new_name
        THEN OsRename(f, file_path, Join(camera_dir, new_name))
        ELSE [fs |-> f, raised |-> FALSE]

\* rename_media, rule 1: a name that already has the standard shape is skipped.
SkipsStandardName(prefix, filename) == MatchesStandardName(prefix, filename)

RECURSIVE RenameMediaLoop(_, _, _, _)
\* media_utils.rename_media: the second loop, from the i-th collected file on.
\* The extension is compared as it is written.
RenameMediaLoop(f, camera_dir, file_list, i) ==
    IF i > Len(file_list) THEN [fs |-> f, raised |-> FALSE]
    ELSE
      LET file_path == file_list[i]
          filename == Basename(file_path)
          ext == SplitExt(filename)[2]
          prefix == IF ext \in IMAGE_EXTENSIONS THEN "IMG" ELSE "VID"
          dt_str == IF IsFile(f, file_path) THEN GetMediaDatetime(f, file_path) ELSE None
          dt_obj == FormatShootingTime(dt_str)
      IN  IF ext \notin MEDIA_EXTENSIONS
          THEN RenameMediaLoop(f, camera_dir, file_list, i + 1)
          ELSE IF SkipsStandardName(prefix, filename)
          THEN RenameMediaLoop(f, camera_dir, file_list, i + 1)
          ELSE IF dt_str = None
          THEN RenameMediaLoop(f, camera_dir, file_list, i + 1)
          ELSE IF dt_obj.raised THEN [fs |-> f, raised |-> TRUE]
          ELSE IF dt_obj.value = None
          THEN RenameMediaLoop(f, camera_dir, file_list, i + 1)
          ELSE
            LET r == RenameOne(f, camera_dir, file_path, prefix, dt_obj.value, ext)
            IN  IF r.raised THEN r
                ELSE RenameMediaLoop(r.fs, camera_dir, file_list, i + 1)

\* media_utils.rename_media(camera_dir), os.listdir yielding the given order.
RenameMedia(f, camera_dir, order) ==
    RenameMediaLoop(f, camera_dir, CollectFiles(f, order), 1)

\* organize_photos.create_target_filename(dt_str, ext, existing_files):
\* [value, raised]; strptime's ValueError is caught and gives None.
OpCreateTargetFilename(dt_str, ext, existing_files) ==
    LET t == Strptime(dt_str)
    IN  IF t.ok
        THEN [value |-> TargetNameLoop("IMG_" \o Strftime(t.dt), ext, existing_files, 1,
                                       "IMG_" \o Strftime(t.dt) \o ext),
              raised |-> FALSE]
        ELSE [value |-> None, raised |-> FALSE]

\* str in str
RECURSIVE ContainsFrom(_, _, _)
ContainsFrom(s, sub, i) ==
    IF i + Len(sub) - 1 > Len(s) THEN FALSE
    ELSE IF SubSeq(s, i, i + Len(sub) - 1) = sub THEN TRUE
    ELSE ContainsFrom(s, sub, i + 1)

Contains(s, sub) == ContainsFrom(s, sub, 1)

RECURSIVE OpRenameMediaLoop(_, _, _, _)
\* organize_photos.rename_media: the second loop, from the i-th collected file
\* on. strptime is called outside any try (line 434).
OpRenameMediaLoop(f, camera_dir, file_list, i) ==
    IF i > Len(file_list) THEN [fs |-> f, raised |-> FALSE]
    ELSE
      LET file_path == file_list[i]
          filename == Basename(file_path)
          dt_str == IF IsFile(f, file_path)
                    THEN GetExifDatetime(ExifOf(f, file_path), FALSE) ELSE None
          t == Strptime(dt_str)
          ext == SplitExt(filename)[2]
          new_name == OpCreateTargetFilename(dt_str, ext, ListNames(f, camera_dir))
      IN  IF dt_str = None THEN OpRenameMediaLoop(f, camera_dir, file_list, i + 1)
          ELSE IF ~t.ok THEN [fs |-> f, raised |-> TRUE]
          ELSE IF Contains(filename, Strftime(t.dt))
          THEN OpRenameMediaLoop(f, camera_dir, file_list, i + 1)
          ELSE IF new_name.value = None \/ filename = new_name.value
          THEN OpRenameMediaLoop(f, camera_dir, file_list, i + 1)
          ELSE
            LET r == OsRename(f, file_path, Join(camera_dir, new_name.value))
            IN  IF r.raised THEN r
                ELSE OpRenameMediaLoop(r.fs, camera_dir, file_list, i + 1)

\* organize_photos.rename_media(camera_dir)
OpRenameMedia(f, camera_dir, order) ==
    OpRenameMediaLoop(f, camera_dir, CollectFiles(f, order), 1)

-----------------------------------------------------------------------------
(* FileOrganizer: sorting a media folder into camera / no_camera and       *)
(* naming the files.                                                       *)

\* "IMG_" if media_type == "image" else "VID_"
OrganizerPrefix(media_type) == IF media_type = "image" THEN "IMG_" ELSE "VID_"

\* process_camera_folder, lines 155-175: one file of the listing is named
\* after its creation time and moved into the year directory. [fs, raised]
ProcessCameraFile(f, camera_dir, media_type, file_path) ==
    IF ~IsFile(f, file_path) THEN [fs |-> f, raised |-> FALSE]
    ELSE
      LET creation_time == GetCreationTime(f, file_path)
          year_dir == Join(camera_dir, Str(creation_time.year))
          new_name == OrganizerPrefix(media_type) \o Strftime(creation_time)
                          \o SplitExt(Basename(file_path))[2]
      IN  ShutilMove(MakeDirs(f, year_dir), file_path, Join(year_dir, new_name))

RECURSIVE ProcessCameraFolderLoop(_, _, _, _, _)
ProcessCameraFolderLoop(f, camera_dir, media_type, order, i) ==
    IF i > Len(order) THEN [fs |-> f, raised |-> FALSE]
    ELSE
      LET r == ProcessCameraFile(f, camera_dir, media_type, order[i])
      IN  IF r.raised THEN r
          ELSE ProcessCameraFolderLoop(r.fs, camera_dir, media_type, order, i + 1)

\* FileOrganizer.process_camera_folder(camera_dir, media_type)
ProcessCameraFolder(f, camera_dir, media_type, order) ==
    ProcessCameraFolderLoop(f, camera_dir, media_type, order, 1)

\* process_no_camera_folder, lines 185-204, for one file of the listing.
ProcessNoCameraFile(f, no_camera_dir, media_type, file_path) ==
    IF ~IsFile(f, file_path) THEN [fs |-> f, raised |-> FALSE]
    ELSE
      LET mod_time == MtimeOf(f, file_path)
          year_dir == Join(no_camera_dir, Str(mod_time.year))
          new_name == OrganizerPrefix(media_type) \o Strftime(mod_time)
                          \o SplitExt(Basename(file_path))[2]
      IN  ShutilMove(MakeDirs(f, year_dir), file_path, Join(year_dir, new_name))

RECURSIVE ProcessNoCameraFolderLoop(_, _, _, _, _)
ProcessNoCameraFolderLoop(f, no_camera_dir, media_type, order, i) ==
    IF i > Len(order) THEN [fs |-> f, raised |-> FALSE]
    ELSE
      LET r == ProcessNoCameraFile(f, no_camera_dir, media_type, order[i])
      IN  IF r.raised THEN r
          ELSE ProcessNoCameraFolderLoop(r.fs, no_camera_dir, media_type, order, i + 1)

\* FileOrganizer.process_no_camera_folder(no_camera_dir, media_type)
ProcessNoCameraFolder(f, no_camera_dir, media_type, order) ==
    ProcessNoCameraFolderLoop(f, no_camera_dir, media_type, order, 1)

\* if creation_time: what get_creation_time returns is a datetime in every
\* case, and a datetime is true.
HasCreationTime(f, file_path) == GetCreationTime(f, file_path).year >= 1

RECURSIVE SortMediaLoop(_, _, _, _)
\* process_media_folder, lines 127-142: each file of the listing is moved,
\* under its own name, to camera or to no_camera.
SortMediaLoop(f, media_folder, order, i) ==
    IF i > Len(order) THEN [fs |-> f, raised |-> FALSE]
    ELSE IF ~IsFile(f, order[i]) THEN SortMediaLoop(f, media_folder, order, i + 1)
    ELSE
      LET dest_dir == IF HasCreationTime(f, order[i])
                      THEN Join(media_folder, "camera")
                      ELSE Join(media_folder, "no_camera")
          r == ShutilMove(f, order[i], Join(dest_dir, Basename(order[i])))
      IN  IF r.raised THEN r ELSE SortMediaLoop(r.fs, media_folder, order, i + 1)

\* process_media_folder up to its first loop: the two directories are made
\* and the files sorted into them.
SortMedia(f, media_folder, order) ==
    SortMediaLoop(MakeDirs(MakeDirs(f, Join(media_folder, "camera")),
                           Join(media_folder, "no_camera")),
                  media_folder, order, 1)

-----------------------------------------------------------------------------
(* media_utils: sorting a tree into camera / no_camera, and naming the     *)
(* files of no_camera.                                                     *)

\* A walk that enters every directory.
PrunedNever(p, top) == FALSE

\* dirs[:] = [d for d in dirs if d not in exclude_dirs]: the walk enters no
\* directory called camera or no_camera.
RECURSIVE Pruned(_, _)
Pruned(p, top) ==
    IF p = top \/ Len(p) <= Len(top) THEN FALSE
    ELSE LET d == Dirname(p)
         IN  IF d = top THEN FALSE
             ELSE Basename(d) \in {"camera", "no_camera"} \/ Pruned(d, top)

\* The files the walk of classify_media visits.
ClassifyWalkFiles(f, source_path) ==
    {p \in WalkFiles(f, source_path) : ~Pruned(p, source_path)}

ClassifyWalkOrders(f, source_path) ==
    {s \in Orders(ClassifyWalkFiles(f, source_path)) : IsWalkOrder(s)}

\* classify_media, lines 117-127: camera when format_shooting_time gives a
\* time, else no_camera.
ClassifyTarget(f, file_path, camera_dir, no_camera_dir) ==
    IF FormatShootingTime(GetMediaDatetime(f, file_path)).value # None
    THEN camera_dir ELSE no_camera_dir

RECURSIVE ClassifyMediaLoop(_, _, _, _, _)
ClassifyMediaLoop(f, source_path, file_types, order, i) ==
    IF i > Len(order) THEN f
    ELSE
      LET file_path == order[i]
          ext == SplitExt(Basename(file_path))[2]
      IN  IF Lower(ext) \in file_types
          THEN ClassifyMediaLoop(
                 MoveFileWithConflictResolution(f, file_path,
                     ClassifyTarget(f, file_path, Join(source_path, "camera"),
                                    Join(source_path, "no_camera"))).fs,
                 source_path, file_types, order, i + 1)
          ELSE ClassifyMediaLoop(f, source_path, file_types, order, i + 1)

\* media_utils.classify_media(source_path, file_types)
ClassifyMedia(f, source_path, file_types, order) ==
    ClassifyMediaLoop(MakeDirs(MakeDirs(f, Join(source_path, "camera")),
                               Join(source_path, "no_camera")),
                      source_path, file_types, order, 1)

RECURSIVE RenameConflictLoop(_, _, _, _, _, _)
\* remane_file_with_confict_resolution: while os.path.exists(join(target_dir, new_name))
RenameConflictLoop(f, new_base_name, ext, target_dir, counter, new_name) ==
    IF Exists(f, Join(target_dir, new_name))
    THEN RenameConflictLoop(f, new_base_name, ext, target_dir, counter + 1,
                            new_base_name \o "_" \o Str(counter) \o ext)
    ELSE new_name

\* media_utils.remane_file_with_confict_resolution(file_path, new_base_name, ext, target_dir)
RenameFileWithConflictResolution(f, file_path, new_base_name, ext, target_dir) ==
    OsRename(f, file_path,
             Join(target_dir, RenameConflictLoop(f, new_base_name, ext, target_dir, 1,
                                                 new_base_name \o ext))).fs

\* re.match(r'^(\d{8})_IMG_(\d{4}).*$', base_name)
MatchesRule2(base_name) ==
    /\ Len(base_name) >= 17
    /\ IsDigits(SubSeq(base_name, 1, 8))
    /\ SubSeq(base_name, 9, 13) = "_IMG_"
    /\ IsDigits(SubSeq(base_name, 14, 17))

\* re.match(r'^MTXX_(\d{8})(\d{6})$', base_name)
MatchesRule3(base_name) ==
    /\ Len(base_name) = 19
    /\ SubSeq(base_name, 1, 5) = "MTXX_"
    /\ IsDigits(SubSeq(base_name, 6, 19))

\* re.match(r'^beauty_(\d{8})(\d{6}).*$', base_name)
MatchesRule4(base_name) ==
    /\ Len(base_name) >= 21
    /\ SubSeq(base_name, 1, 7) = "beauty_"
    /\ IsDigits(SubSeq(base_name, 8, 21))

\* re.match(r'^pt(\d{4})_(\d{2})_(\d{2})_(\d{2})_(\d{2})_(\d{2})$', base_name)
MatchesRule5(base_name) ==
    /\ Len(base_name) = 21
    /\ SubSeq(base_name, 1, 2) = "pt"
    /\ IsDigits(SubSeq(base_name, 3, 6))
    /\ \A k \in 0..4 : /\ Ch(base_name, 7 + 3 * k) = "_"
                       /\ IsDigits(SubSeq(base_name, 8 + 3 * k, 9 + 3 * k))

\* rule 6, line 368: IMG_<date>_<time>_NO from the modification time.
ModTimeBaseName(dt_obj) == "IMG_" \o Strftime(dt_obj) \o "_NO"

\* rename_no_camera_files, lines 296-376: the new base name of one file, or
\* None when the file keeps its name.
NoCameraBaseName(f, file_path) ==
    LET base_name == SplitExt(Basename(file_path))[1]
        ext == Lower(SplitExt(Basename(file_path))[2])
    IN  IF ext \notin IMAGE_EXTENSIONS THEN None
        ELSE IF MatchesStandardName("IMG", base_name) THEN None
        ELSE IF MatchesRule2(base_name)
             THEN "IMG_" \o SubSeq(base_name, 1, 8) \o "_" \o SubSeq(base_name, 14, 17) \o "00"
        ELSE IF MatchesRule3(base_name)
             THEN "IMG_" \o SubSeq(base_name, 6, 13) \o "_" \o SubSeq(base_name, 14, 19)
        ELSE IF MatchesRule4(base_name)
             THEN "IMG_" \o SubSeq(base_name, 8, 15) \o "_" \o SubSeq(base_name, 16, 21)
        ELSE IF MatchesRule5(base_name)
             THEN "IMG_" \o SubSeq(base_name, 3, 6) \o SubSeq(base_name, 8, 9)
                      \o SubSeq(base_name, 11, 12) \o "_" \o SubSeq(base_name, 14, 15)
                      \o SubSeq(base_name, 17, 18) \o SubSeq(base_name, 20, 21)
        ELSE ModTimeBaseName(MtimeOf(f, file_path))

RECURSIVE RenameNoCameraLoop(_, _, _, _)
RenameNoCameraLoop(f, no_camera_dir, file_list, i) ==
    IF i > Len(file_list) THEN f
    ELSE
      LET file_path == file_list[i]
          new_base_name == NoCameraBaseName(f, file_path)
      IN  IF new_base_name = None
          THEN RenameNoCameraLoop(f, no_camera_dir, file_list, i + 1)
          ELSE RenameNoCameraLoop(
                 RenameFileWithConflictResolution(f, file_path, new_base_name,
                     Lower(SplitExt(Basename(file_path))[2]), no_camera_dir),
                 no_camera_dir, file_list, i + 1)

\* media_utils.rename_no_camera_files(no_camera_dir)
RenameNoCameraFiles(f, no_camera_dir, order) ==
    RenameNoCameraLoop(f, no_camera_dir, CollectFiles(f, order), 1)

RECURSIVE OpClassifyMediaLoop(_, _, _, _, _)
OpClassifyMediaLoop(f, camera_dir, photo_dir, all_files, i) ==
    IF i > Len(all_files) THEN f
    ELSE
      LET file_path == all_files[i]
          ext == SplitExt(Basename(file_path))[2]
          dt_str == GetExifDatetime(ExifOf(f, file_path), FALSE)
      IN  IF IsFile(f, file_path) /\ Lower(ext) \in MEDIA_EXTENSIONS
          THEN OpClassifyMediaLoop(
                 MoveFileWithConflictResolution(f, file_path,
                     IF dt_str # None THEN camera_dir ELSE photo_dir).fs,
                 camera_dir, photo_dir, all_files, i + 1)
          ELSE OpClassifyMediaLoop(f, camera_dir, photo_dir, all_files, i + 1)

\* organize_photos.classify_media(source_path, camera_dir, photo_dir)
OpClassifyMedia(f, camera_dir, photo_dir, all_files) ==
    OpClassifyMediaLoop(f, camera_dir, photo_dir, all_files, 1)

\* The files the walk of media_processor.classify_media handles: those of
\* every directory but camera and no_camera themselves.
MpClassifyWalkFiles(f, media_dir) ==
    {p \in WalkFiles(f, media_dir) :
        Dirname(p) \notin {Join(media_dir, "camera"), Join(media_dir, "no_camera")}}

MpClassifyWalkOrders(f, media_dir) ==
    {s \in Orders(MpClassifyWalkFiles(f, media_dir)) : IsWalkOrder(s)}

RECURSIVE MpConflictLoop(_, _, _, _, _)
\* media_processor.classify_media, lines 148-152: while os.path.exists(dest_path)
MpConflictLoop(f, dest_dir, file, counter, dest_path) ==
    IF Exists(f, dest_path)
    THEN MpConflictLoop(f, dest_dir, file, counter + 1,
                        Join(dest_dir, SplitExt(file)[1] \o "_" \o Str(counter)
                                           \o SplitExt(file)[2]))
    ELSE dest_path

RECURSIVE MpClassifyMediaLoop(_, _, _, _, _)
\* [fs, raised]
MpClassifyMediaLoop(f, media_dir, media_type, order, i) ==
    IF i > Len(order) THEN [fs |-> f, raised |-> FALSE]
    ELSE
      LET src_path == order[i]
          capture_time == GetCaptureTime(f, src_path, media_type)
          dest_dir == IF capture_time.value.ok THEN Join(media_dir, "camera")
                      ELSE Join(media_dir, "no_camera")
          dest_path == MpConflictLoop(f, dest_dir, Basename(src_path), 1,
                                      Join(dest_dir, Basename(src_path)))
          r == ShutilMove(f, src_path, dest_path)
      IN  IF capture_time.raised \/ r.raised THEN [fs |-> f, raised |-> TRUE]
          ELSE MpClassifyMediaLoop(r.fs, media_dir, media_type, order, i + 1)

\* media_organizer.media_processor.classify_media(media_dir, media_type)
MpClassifyMedia(f, media_dir, media_type, order) ==
    MpClassifyMediaLoop(MakeDirs(MakeDirs(f, Join(media_dir, "camera")),
                                 Join(media_dir, "no_camera")),
                        media_dir, media_type, order, 1)

-----------------------------------------------------------------------------
(* The media state machine: a folder of pictures and videos, and the calls  *)
(* that sort and name them.                                                 *)

MaxMediaFiles == 2

MediaDir == "m"

CameraDir == Join(MediaDir, "camera")

NoCameraDir == Join(MediaDir, "no_camera")

\* The pictures the folder can hold and what each can contain.
ImageNames == {"m/a.jpg", "m/s/a.jpg", "m/IMG_20200101_000000.jpg",
               "m/20200101_IMG_0000.jpg"}

ImageContents == {"p1", "p3", "p4"}

\* The videos, and what the probe can do with them.
VideoNames == {"m/v.mp4"}

VideoContents == {"v1", "v2", "v3", "v4"}

MediaContents(p) == IF p \in ImageNames THEN ImageContents ELSE VideoContents

NoMedia == [op |-> "none", prev |-> "none", raised |-> FALSE,
            file_types |-> {}, media_type |-> "", sorted |-> <<>>]

InitMedia ==
    /\ \E S \in SUBSET (ImageNames \cup VideoNames) :
          /\ Cardinality(S) <= MaxMediaFiles
          /\ \E content \in [S -> ImageContents \cup VideoContents] :
                /\ \A p \in S : content[p] \in MediaContents(p)
                /\ fs = Tree([p \in S |-> File(content[p])], S) @@ (MediaDir :> Dir)
    /\ pre = fs
    /\ last = NoMedia
    /\ index = NoIndex
    /\ calls = 0

MediaCalled(op, raised, file_types, media_type, sorted) ==
    [op |-> op, prev |-> last.op, raised |-> raised, file_types |-> file_types,
     media_type |-> media_type, sorted |-> sorted]

\* media_utils.classify_media(MediaDir, file_types), on a fresh folder or on
\* the tree it produced
ClassifyMediaCall ==
    /\ last.op \in {"none", "classify_media"}
    /\ last.prev = "none"
    /\ \E file_types \in {IMAGE_EXTENSIONS, MEDIA_EXTENSIONS} :
       \E order \in ClassifyWalkOrders(fs, MediaDir) :
          /\ last.op = "classify_media" => file_types = last.file_types
          /\ fs' = ClassifyMedia(fs, MediaDir, file_types, order)
          /\ last' = MediaCalled("classify_media", FALSE, file_types, "", <<>>)
    /\ pre' = fs
    /\ calls' = calls + 1
    /\ UNCHANGED index

\* media_utils.rename_media(CameraDir), after classify_media
RenameMediaCall ==
    /\ last.op = "classify_media"
    /\ \E order \in Orders(Listdir(fs, CameraDir)) :
       \E r \in {RenameMedia(fs, CameraDir, order)} :
          /\ fs' = r.fs
          /\ last' = MediaCalled("rename_media", r.raised, last.file_types, "", <<>>)
    /\ pre' = fs
    /\ calls' = calls + 1
    /\ UNCHANGED index

\* media_utils.rename_no_camera_files(NoCameraDir), after classify_media
RenameNoCameraCall ==
    /\ last.op = "classify_media"
    /\ \E order \in Orders(Listdir(fs, NoCameraDir)) :
          /\ fs' = RenameNoCameraFiles(fs, NoCameraDir, order)
          /\ last' = MediaCalled("rename_no_camera_files", FALSE, last.file_types, "", <<>>)
    /\ pre' = fs
    /\ calls' = calls + 1
    /\ UNCHANGED index

\* organize_photos.classify_and_rename_media(MediaDir), lines 488-501
OpClassifyAndRenameMedia ==
    /\ last.op = "none"
    /\ \E all_files \in Orders(Listdir(fs, MediaDir)) :
       \E classified \in {OpClassifyMedia(MakeDirs(MakeDirs(fs, CameraDir), NoCameraDir),
                                          CameraDir, NoCameraDir, all_files)} :
       \E order \in Orders(Listdir(classified, CameraDir)) :
       \E r \in {OpRenameMedia(classified, CameraDir, order)} :
          /\ fs' = r.fs
          /\ last' = MediaCalled("classify_and_rename_media", r.raised,
                                 MEDIA_EXTENSIONS, "", classified)
    /\ pre' = fs
    /\ calls' = calls + 1
    /\ UNCHANGED index

\* FileOrganizer.process_media_folder(MediaDir, media_type)
ProcessMediaFolder ==
    /\ last.op = "none"
    /\ \E media_type \in {"image", "video"} :
       \E order \in Orders(Listdir(fs, MediaDir)) :
       \E s \in {SortMedia(fs, MediaDir, order)} :
          /\ ~s.raised
          /\ \E camera_order \in Orders(Listdir(s.fs, CameraDir)) :
             \E no_camera_order \in Orders(Listdir(s.fs, NoCameraDir)) :
             \E c \in {ProcessCameraFolder(s.fs, CameraDir, media_type, camera_order)} :
             \E n \in {IF c.raised THEN c
                       ELSE ProcessNoCameraFolder(c.fs, NoCameraDir, media_type,
                                                  no_camera_order)} :
                /\ fs' = n.fs
                /\ last' = MediaCalled("process_media_folder", n.raised, {},
                                       media_type, s.fs)
    /\ pre' = fs
    /\ calls' = calls + 1
    /\ UNCHANGED index

\* media_processor.classify_media(MediaDir, media_type)
MpClassifyMediaCall ==
    /\ last.op = "none"
    /\ \E media_type \in {"images", "videos"} :
       \E order \in MpClassifyWalkOrders(fs, MediaDir) :
       \E r \in {MpClassifyMedia(fs, MediaDir, media_type, order)} :
          /\ fs' = r.fs
          /\ last' = MediaCalled("mp_classify_media", r.raised, {}, media_type, <<>>)
    /\ pre' = fs
    /\ calls' = calls + 1
    /\ UNCHANGED index

NextMedia ==
    \/ ClassifyMediaCall
    \/ RenameMediaCall
    \/ RenameNoCameraCall
    \/ OpClassifyAndRenameMedia
    \/ ProcessMediaFolder
    \/ MpClassifyMediaCall

SpecMedia == InitMedia /\ [][NextMedia]_vars

-----------------------------------------------------------------------------
(* Claims about naming and sorting media files.                            *)

\* The files of the tree under d that hold content c.
Holding(f, d, c) == {p \in WalkFiles(f, d) : f[p].data = c}

\* No file of the tree under d is lost between f and g: each content is held
\* by as many files after as before.
LosesNone(f, g, d) ==
    \A c \in ImageContents \cup VideoContents :
        Cardinality(Holding(g, d, c)) = Cardinality(Holding(f, d, c))

\* The capture time a picture or video resolves to, as it appears in names;
\* None when it resolves to none.
ResolvedTime(f, p) == FormatShootingTime(GetMediaDatetime(f, p)).value

\* The suffixed names of a directory are used from _1 upwards.
SuffixesFromOne(f, d, base, ext) ==
    \A k \in 1..MaxMediaFiles :
        Exists(f, Join(d, base \o "_" \o Str(k) \o ext))
            => Exists(f, Join(d, IF k = 1 THEN base \o ext
                                 ELSE base \o "_" \o Str(k - 1) \o ext))

\* rename_media loses no file and numbers the files of one capture time
\* IMG_<date>_<time>, _1, _2, ...
C11_AfterRenameMedia ==
    last.op = "rename_media" =>
        /\ ~last.raised
        /\ LosesNone(pre, fs, MediaDir)
        /\ SuffixesFromOne(fs, CameraDir, "IMG_20230515_143000", ".jpg")

\* process_camera_folder, as process_media_folder runs it on the camera
\* directory it has filled, loses no file.
C11_AfterProcessCameraFolder ==
    last.op = "process_media_folder" =>
        /\ ~last.raised
        /\ LosesNone(last.sorted, fs, MediaDir)
        /\ SuffixesFromOne(fs, Join(CameraDir, "2023"), "IMG_20230515_143000", ".jpg")

\* C11: when several files of one directory resolve to the same capture time,
\* renaming loses none of them: after rename_media and after
\* FileOrganizer.process_camera_folder there are as many files as before, the
\* first is named IMG_<date>_<time>.ext and the further ones
\* IMG_<date>_<time>_k.ext with k = 1, 2, ..., and nothing is overwritten.
C11_RenamingLosesNone == C11_AfterRenameMedia /\ C11_AfterProcessCameraFolder

\* A picture without the DateTimeOriginal tag whose name matches none of the
\* filename patterns.
Undated(f, p) ==
    /\ IsFile(f, p)
    /\ Lower(SplitExt(Basename(p))[2]) \in IMAGE_EXTENSIONS
    /\ ExifOf(f, p) = NoExif
    /\ LET base_name == SplitExt(Basename(p))[1]
       IN  /\ ~MatchesStandardName("IMG", base_name)
           /\ ~MatchesRule2(base_name) /\ ~MatchesRule3(base_name)
           /\ ~MatchesRule4(base_name) /\ ~MatchesRule5(base_name)

\* The files under the no-capture-time bucket that hold content c and are
\* named from modification time dt with the _NO marker.
MarkedFiles(f, c, dt) ==
    {q \in WalkFiles(f, NoCameraDir) :
        /\ f[q].data = c
        /\ StartsWith(Basename(q), "IMG_" \o Strftime(dt) \o "_NO")}

\* Every undated picture found under d in the state before is, after, a file
\* of the no-capture-time bucket named from its modification time and marked.
UndatedAreMarked(d) ==
    \A c \in ImageContents :
        Cardinality(MarkedFiles(fs, c, ImageTable[c].mtime))
            >= Cardinality({p \in Listdir(pre, d) : Undated(pre, p) /\ pre[p].data = c})

\* C12: a file with no embedded capture time whose name matches no filename
\* pattern is named from its modification time with the _NO marker and is in
\* the no-capture-time bucket, not in camera, after rename_no_camera_files and
\* after FileOrganizer.process_media_folder.
C12_UndatedMarkedNoCamera ==
    /\ last.op = "rename_no_camera_files" => UndatedAreMarked(NoCameraDir)
    /\ last.op = "process_media_folder" => UndatedAreMarked(MediaDir)

\* The pictures of the tree that carry a well-formed DateTimeOriginal.
DatedPictures(f) ==
    {p \in WalkFiles(f, MediaDir) :
        /\ Lower(SplitExt(Basename(p))[2]) \in IMAGE_EXTENSIONS
        /\ ResolvedTime(f, p) # None}

\* C13: resolution is metadata-first: after classify_media and rename_media
\* the name of every picture that carries a DateTimeOriginal T encodes T,
\* whatever the picture was called before.
C13_MetadataFirst ==
    (last.op = "rename_media" /\ ~last.raised) =>
        \A p \in DatedPictures(fs) :
            StartsWith(Basename(p), "IMG_" \o ResolvedTime(fs, p))

-----------------------------------------------------------------------------
(* The resolver state machine: one DateTimeOriginal value, or one run of    *)
(* the video probe, and the functions that turn it into a capture time.     *)

\* Well-formed 'YYYY:MM:DD HH:MM:SS' timestamps.
Stamps ==
    {y \o ":" \o md \o " " \o t :
        y \in {"1999", "2023"},
        md \in {"01:01", "02:28", "05:15", "12:31"},
        t \in {"00:00:00", "14:30:00", "23:59:59"}}

\* What can follow the timestamp in the tag: nothing, garbage, a sub-second
\* fragment, a time zone.
Trailers == {"", "aa", ".123", ".5aa", "Z", "+08:00", " ", "0"}

\* Values that are not a timestamp even when cut to 19 characters.
MalformedValues ==
    {Malformed, "garbage", "2023:05:15 14:30", "2023:02:30 10:00:00",
     "2023-05-15 14:30:00", "2023:05:15T14:30:00", "0000:00:00 00:00:00",
     "2023:05:15 14:30:61", "2023.05.15 14:30:00"}

NoResolve == [op |-> "none", stamp |-> None, value |-> None, unreadable |-> FALSE,
              dt_str |-> None, formatted |-> None, raised |-> FALSE]

InitTime ==
    /\ \/ \E stamp \in Stamps, trailer \in Trailers :
             last = [NoResolve EXCEPT !.stamp = stamp, !.value = stamp \o trailer]
       \/ \E value \in MalformedValues \cup {NoExif} :
             last = [NoResolve EXCEPT !.value = value]
    /\ fs = <<>>
    /\ pre = <<>>
    /\ index = NoIndex
    /\ calls = 0

\* media_utils.get_exif_datetime(image_path) on a picture whose tag holds
\* last.value
GetExifDatetimeCall ==
    /\ last.op = "none"
    /\ \E unreadable \in BOOLEAN :
          last' = [last EXCEPT !.op = "get_exif_datetime",
                               !.unreadable = unreadable,
                               !.dt_str = GetExifDatetime(last.value, unreadable)]
    /\ calls' = calls + 1
    /\ UNCHANGED <<fs, pre, index>>

\* media_utils.format_shooting_time(dt_str) on what get_exif_datetime returned
FormatShootingTimeCall ==
    /\ last.op = "get_exif_datetime"
    /\ \E r \in {FormatShootingTime(last.dt_str)} :
          last' = [last EXCEPT !.op = "format_shooting_time",
                               !.formatted = r.value, !.raised = r.raised]
    /\ calls' = calls + 1
    /\ UNCHANGED <<fs, pre, index>>

NextTime == GetExifDatetimeCall \/ FormatShootingTimeCall

SpecTime == InitTime /\ [][NextTime]_vars

\* YYYYMMDD_HHMMSS written out from the characters of 'YYYY:MM:DD HH:MM:SS'.
Rendered(stamp) ==
    SubSeq(stamp, 1, 4) \o SubSeq(stamp, 6, 7) \o SubSeq(stamp, 9, 10) \o "_"
        \o SubSeq(stamp, 12, 13) \o SubSeq(stamp, 15, 16) \o SubSeq(stamp, 18, 19)

\* The tag was read and starts with a well-formed timestamp.
ReadWellFormed == last.stamp # None /\ ~last.unreadable

\* C14: for a DateTimeOriginal whose first 19 characters are a well-formed
\* timestamp, whatever follows them, get_exif_datetime returns exactly those
\* 19 characters and format_shooting_time renders them as YYYYMMDD_HHMMSS.
C14_TruncateAndParse ==
    /\ (last.op = "get_exif_datetime" /\ ReadWellFormed) =>
           last.dt_str = SubSeq(last.value, 1, 19) /\ last.dt_str = last.stamp
    /\ (last.op = "format_shooting_time" /\ ReadWellFormed) =>
           last.formatted = Rendered(last.stamp) /\ ~last.raised

\* The tag '2023:05:15 14:30:00aa' has been read and rendered.
C14_Witness ==
    /\ last.op = "format_shooting_time"
    /\ last.value = CaptureTime \o "aa"
    /\ ~last.unreadable
    /\ last.formatted = "20230515_143000"

-----------------------------------------------------------------------------
(* Claims about malformed timestamps in the media state machine.           *)

\* The pictures whose tag is not a timestamp even when cut to 19 characters.
MalformedPictures(f) ==
    {p \in WalkFiles(f, MediaDir) :
        /\ Lower(SplitExt(Basename(p))[2]) \in IMAGE_EXTENSIONS
        /\ ExifOf(f, p) # NoExif
        /\ ResolvedTime(f, p) = None}

\* The calls that classify or rename by capture time.
ResolvingOps == {"classify_media", "rename_media", "classify_and_rename_media"}

\* C15: a timestamp that is still malformed after truncation never raises out
\* of the classify or rename operations: the file counts as having no capture
\* time, it is in the no-capture-time bucket and keeps its name, and the
\* other files of the directory are processed: the dated pictures are in
\* camera under a name of the standard shape.
C15_MalformedDegrades ==
    last.op \in ResolvingOps =>
        /\ ~last.raised
        /\ \A p \in MalformedPictures(fs) : Dirname(p) = NoCameraDir
        /\ \A p \in DatedPictures(fs) :
              /\ Dirname(p) = CameraDir
              /\ last.op # "classify_media" =>
                     MatchesStandardName("IMG", Basename(p))

-----------------------------------------------------------------------------
(* Claims about the video probe.                                           *)

IsVideo(p) == Lower(SplitExt(Basename(p))[2]) \in VIDEO_EXTENSIONS

\* The exiftool run failed: not started, non-zero exit, or output that is no
\* timestamp.
ExiftoolFailed(probe) ==
    \/ ~probe.started
    \/ probe.returncode # 0
    \/ probe.stdout \notin {"", "-"} /\ ~Strptime(probe.stdout).ok

\* The ffprobe run failed: not started, non-zero exit, or output that is no
\* JSON.
FfprobeFailed(probe) ==
    \/ ~probe.started
    \/ probe.returncode # 0
    \/ ~CreationTimeTag(probe.stdout).ok

\* The file p of the state before is, after, a file of the no-capture-time
\* bucket.
RoutedToNoCamera(p) ==
    \E q \in Listdir(fs, NoCameraDir) : fs[q].data = pre[p].data

\* C16: when the video probe exits non-zero, cannot be started or prints
\* output that cannot be parsed, get_capture_time and get_video_datetime
\* return None and no exception reaches the caller: the call does not raise,
\* the video is in the no-capture-time bucket and no file is left unclassified.
C16_ProbeFailureGivesNone ==
    /\ (last.op = "classify_media" /\ last.file_types = MEDIA_EXTENSIONS) =>
          /\ ~last.raised
          /\ ClassifyWalkFiles(fs, MediaDir) = {}
          /\ \A p \in ClassifyWalkFiles(pre, MediaDir) :
                (IsVideo(p) /\ ExiftoolFailed(ProbeOf(pre, p))) =>
                    /\ GetVideoDatetime(ProbeOf(pre, p)) = None
                    /\ RoutedToNoCamera(p)
    /\ (last.op = "mp_classify_media" /\ last.media_type = "videos") =>
          /\ ~last.raised
          /\ MpClassifyWalkFiles(fs, MediaDir) = {}
          /\ \A p \in MpClassifyWalkFiles(pre, MediaDir) :
                (IsVideo(p) /\ FfprobeFailed(FfprobeOf(pre, p))) =>
                    /\ ~GetCaptureTime(pre, p, "videos").value.ok
                    /\ RoutedToNoCamera(p)


-----------------------------------------------------------------------------
(* Sorting the files of one directory into image/ and video/.              *)

\* classify_files.py: IMAGE_EXTENSIONS
ClassifyFilesImageExtensions ==
    {".jpg", ".jpeg", ".png", ".gif", ".bmp", ".tiff", ".webp"}

\* classify_files.py: VIDEO_EXTENSIONS
ClassifyFilesVideoExtensions ==
    {".mp4", ".mov", ".avi", ".mkv", ".flv", ".wmv", ".mpeg"}

\* The listings os.listdir(directory) can give.  A directory is skipped
\* wherever the listing names it, so the listings that differ only in where
\* the directories come are one case: they are named last.
ClassifyListings(f, directory) ==
    LET files == {p \in Listdir(f, directory) : ~IsDir(f, p)}
        dirs == Listdir(f, directory) \ files
    IN  {order \o (CHOOSE s \in Orders(dirs) : TRUE) : order \in Orders(files)}

RECURSIVE ClassifyFilesLoop(_, _, _, _)
\* classify_files.py, lines 22-45: for filename in os.listdir(directory)
\* [fs, raised]
ClassifyFilesLoop(f, directory, order, i) ==
    IF i > Len(order) THEN [fs |-> f, raised |-> FALSE]
    ELSE
      LET filepath == order[i]
          filename == Basename(filepath)
          ext == Lower(SplitExt(filename)[2])
          dest == IF ext \in ClassifyFilesImageExtensions
                  THEN Join(Join(directory, "image"), filename)
                  ELSE Join(Join(directory, "video"), filename)
      IN  IF IsDir(f, filepath)
          THEN ClassifyFilesLoop(f, directory, order, i + 1)
          ELSE IF ext \in ClassifyFilesImageExtensions \cup ClassifyFilesVideoExtensions
          THEN Only({IF r.raised THEN r
                     ELSE ClassifyFilesLoop(r.fs, directory, order, i + 1) :
                     r \in {ShutilMove(f, filepath, dest)}})
          ELSE ClassifyFilesLoop(f, directory, order, i + 1)

\* classify_files.classify_files(directory), listing the directory in order
ClassifyFiles(f, directory, order) ==
    ClassifyFilesLoop(MakeDirs(MakeDirs(f, Join(directory, "image")),
                               Join(directory, "video")),
                      directory, order, 1)

RECURSIVE OrganizerClassifyFilesLoop(_, _, _, _)
\* FileOrganizer.classify_files, lines 103-111: for file in os.listdir(self.target_folder)
\* [fs, raised]
OrganizerClassifyFilesLoop(f, target_folder, order, i) ==
    IF i > Len(order) THEN [fs |-> f, raised |-> FALSE]
    ELSE
      LET file_path == order[i]
          file == Basename(file_path)
          ext == Lower(SplitExt(file)[2])
          dest == IF ext \in SUPPORTED_EXTENSIONS.image
                  THEN Join(Join(target_folder, "image"), file)
                  ELSE Join(Join(target_folder, "video"), file)
      IN  IF IsFile(f, file_path)
             /\ ext \in SUPPORTED_EXTENSIONS.image \cup SUPPORTED_EXTENSIONS.video
          THEN Only({IF r.raised THEN r
                     ELSE OrganizerClassifyFilesLoop(r.fs, target_folder, order, i + 1) :
                     r \in {ShutilMove(f, file_path, dest)}})
          ELSE OrganizerClassifyFilesLoop(f, target_folder, order, i + 1)

\* FileOrganizer.classify_files(), listing the target folder in order
OrganizerClassifyFiles(f, target_folder, order) ==
    OrganizerClassifyFilesLoop(MakeDirs(MakeDirs(f, Join(target_folder, "image")),
                                        Join(target_folder, "video")),
                               target_folder, order, 1)

RECURSIVE OpClassifyFilesLoop(_, _, _, _)
\* organize_photos.classify_files, lines 278-296: for filename in os.listdir(directory)
OpClassifyFilesLoop(f, directory, order, i) ==
    IF i > Len(order) THEN f
    ELSE
      LET filepath == order[i]
          ext == Lower(SplitExt(Basename(filepath))[2])
      IN  IF IsDir(f, filepath) THEN OpClassifyFilesLoop(f, directory, order, i + 1)
          ELSE IF ext \in IMAGE_EXTENSIONS
          THEN OpClassifyFilesLoop(
                   MoveFileWithConflictResolution(f, filepath, Join(directory, "image")).fs,
                   directory, order, i + 1)
          ELSE IF ext \in VIDEO_EXTENSIONS
          THEN OpClassifyFilesLoop(
                   MoveFileWithConflictResolution(f, filepath, Join(directory, "video")).fs,
                   directory, order, i + 1)
          ELSE OpClassifyFilesLoop(f, directory, order, i + 1)

\* organize_photos.classify_files(directory), listing the directory in order
OpClassifyFiles(f, directory, order) ==
    OpClassifyFilesLoop(MakeDirs(MakeDirs(f, Join(directory, "image")),
                                 Join(directory, "video")),
                        directory, order, 1)

-----------------------------------------------------------------------------
(* The state machine of a directory of mixed files and the classifiers.    *)

MaxClassifyFiles == 2

\* The files the directory can hold at its top.
TopNames == {"m/a.jpg", "m/b.WEBP", "m/c.3gp", "m/d.M4V", "m/f.mp4",
             "m/g.txt", "m/noext", "m/.hidden"}

\* The files it can hold below: one in a bucket of an earlier run, one in a
\* directory of the user's.
DeepNames == {"m/image/a.jpg", "m/s/a.jpg"}

\* What a file of the given name can contain.
ClassifyContents(p) ==
    IF Lower(SplitExt(Basename(p))[2]) \in VIDEO_EXTENSIONS
    THEN {"v1", "v2"} ELSE {"p1", "p3"}

InitClassify ==
    /\ \E S \in SUBSET (TopNames \cup DeepNames) :
          /\ Cardinality(S) <= MaxClassifyFiles
          /\ \E content \in [S -> {"p1", "p3", "v1", "v2"}] :
                /\ \A p \in S : content[p] \in ClassifyContents(p)
                /\ fs = Tree([p \in S |-> File(content[p])], S) @@ (MediaDir :> Dir)
    /\ pre = fs
    /\ last = NoMedia
    /\ index = NoIndex
    /\ calls = 0

\* classify_files.classify_files(MediaDir), on a directory or on the tree it
\* produced
ClassifyFilesCall ==
    /\ last.op \in {"none", "classify_files"}
    /\ last.prev = "none"
    /\ \E g \in {MakeDirs(MakeDirs(fs, Join(MediaDir, "image")), Join(MediaDir, "video"))} :
       \E order \in ClassifyListings(g, MediaDir) :
       \E r \in {ClassifyFiles(fs, MediaDir, order)} :
          /\ fs' = r.fs
          /\ last' = MediaCalled("classify_files", r.raised, {}, "", <<>>)
    /\ pre' = fs
    /\ calls' = calls + 1
    /\ UNCHANGED index

\* FileOrganizer(source, MediaDir).classify_files(), on a directory or on the
\* tree it produced
OrganizerClassifyFilesCall ==
    /\ last.op \in {"none", "organizer_classify_files"}
    /\ last.prev = "none"
    /\ \E g \in {MakeDirs(MakeDirs(fs, Join(MediaDir, "image")), Join(MediaDir, "video"))} :
       \E order \in ClassifyListings(g, MediaDir) :
       \E r \in {OrganizerClassifyFiles(fs, MediaDir, order)} :
          /\ fs' = r.fs
          /\ last' = MediaCalled("organizer_classify_files", r.raised, {}, "", <<>>)
    /\ pre' = fs
    /\ calls' = calls + 1
    /\ UNCHANGED index

\* organize_photos.classify_files(MediaDir)
OpClassifyFilesCall ==
    /\ last.op = "none"
    /\ \E g \in {MakeDirs(MakeDirs(fs, Join(MediaDir, "image")), Join(MediaDir, "video"))} :
       \E order \in ClassifyListings(g, MediaDir) :
          /\ fs' = OpClassifyFiles(fs, MediaDir, order)
          /\ last' = MediaCalled("op_classify_files", FALSE, {}, "", <<>>)
    /\ pre' = fs
    /\ calls' = calls + 1
    /\ UNCHANGED index

NextClassify ==
    \/ ClassifyFilesCall
    \/ OrganizerClassifyFilesCall
    \/ OpClassifyFilesCall
    \/ ClassifyMediaCall

SpecClassify == InitClassify /\ [][NextClassify]_vars


-----------------------------------------------------------------------------
(* Claims about classification by extension.                               *)

\* The files directly in directory d.
TopFiles(f, d) == {p \in Listdir(f, d) : f[p].kind = "file"}

\* The kind the tables of the claim give a file name: the image table is
\* jpg/jpeg/png/gif/bmp/tiff/webp, the video table is
\* mp4/mov/avi/mkv/flv/wmv/mpeg/3gp/m4v, in any letter case.
KindByTable(name) ==
    LET ext == Lower(SplitExt(name)[2])
    IN  IF ext \in IMAGE_EXTENSIONS THEN "image"
        ELSE IF ext \in VIDEO_EXTENSIONS THEN "video"
        ELSE "other"

\* File p of the directory before the call is where its kind puts it.
RoutedByKind(p) ==
    LET kind == KindByTable(Basename(p))
        bucket == Join(Join(MediaDir, kind), Basename(p))
    IN  IF kind = "other"
        THEN p \in DOMAIN fs /\ fs[p] = pre[p]
        ELSE /\ p \notin DOMAIN fs
             /\ bucket \in DOMAIN fs
             /\ fs[bucket] = pre[p]

ClassifyFilesOps == {"classify_files", "organizer_classify_files"}

\* C17: after classify_files, and after FileOrganizer.classify_files, every
\* file of the directory whose extension is in the image table (in any
\* letter case) is in image/, every file whose extension is in the video
\* table is in video/, and every other file is where it was.
C17_RoutedByExtension ==
    (last.op \in ClassifyFilesOps /\ last.prev = "none") =>
        \A p \in TopFiles(pre, MediaDir) : RoutedByKind(p)


\* The entries below the subdirectories of d.
BelowSubdirs(f, d) == {p \in DOMAIN f : IsUnder(p, d) /\ Dirname(p) # d}

Buckets == {Join(MediaDir, "image"), Join(MediaDir, "video")}

\* C18: classify_files leaves every file of the directory whose extension is
\* in neither table (a file without extension and a dot-file included) where
\* it was, with its content; every entry below a subdirectory is as it was,
\* and whatever is new is image/, video/ or a file in one of them.
C18_OthersAndSubdirsUntouched ==
    (last.op \in ClassifyFilesOps) =>
        /\ ~last.raised
        /\ \A p \in TopFiles(pre, MediaDir) :
              KindByTable(Basename(p)) = "other" => p \in DOMAIN fs /\ fs[p] = pre[p]
        /\ \A p \in BelowSubdirs(pre, MediaDir) : p \in DOMAIN fs /\ fs[p] = pre[p]
        /\ \A p \in DOMAIN fs \ DOMAIN pre : p \in Buckets \/ Dirname(p) \in Buckets


\* C19: a second run of classify_files, and of media_utils.classify_media with
\* the same file types, on the tree the first run produced moves no file: the
\* tree after two runs is the tree after one.
C19_SecondRunMovesNothing ==
    (last.op \in {"classify_files", "classify_media"} /\ last.prev = last.op) =>
        /\ ~last.raised
        /\ fs = pre

\* classify_media has run twice on a folder whose pictures the first run moved
\* to camera/ or no_camera/.
C19_Witness ==
    /\ last.op = "classify_media"
    /\ last.prev = "classify_media"
    /\ WalkFiles(fs, CameraDir) \cup WalkFiles(fs, NoCameraDir) # {}


-----------------------------------------------------------------------------
(* FileOrganizer.organize(), step by step: copy_files, deduplicate_files   *)
(* and classify_files are one step each; the loops of process_media_folder, *)
(* process_camera_folder and process_no_camera_folder take one step for    *)
(* each file of their listing.                                             *)

MaxOrganizeFiles == 4

\* source_folder and target_folder
OrganizeSource == "s"

OrganizeTarget == "o"

\* The files the source folder can hold, and a picture an earlier run of a
\* classifier left in the target folder.
OrganizeNames == {"s/a.jpg", "s/b.jpg", "s/t/a.jpg", "s/v.mp4", "s/d.txt",
                  "o/image/no_camera/n.jpg"}

\* Where organize() is: the call it is in, the call before it, the media
\* type and the rest of the listing of the loop it is in.
NoOrganize == [op |-> "none", prev |-> "none", raised |-> FALSE,
               media_type |-> "", todo |-> <<>>]

\* What a file of the given name can contain.
OrganizeContents(p) ==
    IF Lower(SplitExt(Basename(p))[2]) \in VIDEO_EXTENSIONS THEN {"v1", "v2"}
    ELSE IF Lower(SplitExt(Basename(p))[2]) \in IMAGE_EXTENSIONS THEN {"p1", "p3", "p6"}
    ELSE {"p3"}

InitOrganize ==
    /\ \E S \in SUBSET OrganizeNames :
          /\ Cardinality(S) <= MaxOrganizeFiles
          /\ \E content \in [S -> {"p1", "p3", "p6", "v1", "v2"}] :
                /\ \A p \in S : content[p] \in OrganizeContents(p)
                /\ fs = Tree([p \in S |-> File(content[p])], S) @@ (OrganizeSource :> Dir)
    /\ pre = fs
    /\ last = NoOrganize
    /\ index = NoIndex
    /\ calls = 0

Organizing(op, raised, media_type, todo) ==
    [op |-> IF raised THEN "failed" ELSE op, prev |-> last.op, raised |-> raised,
     media_type |-> media_type, todo |-> todo]

\* The folder process_media_folder works on.
MediaFolder(media_type) == Join(OrganizeTarget, media_type)

\* organize, line 211: self.copy_files()
OrganizeCopyFiles ==
    /\ last.op = "none"
    /\ \E order \in WalkOrders(fs, OrganizeSource) :
       \E r \in {OrganizerCopyFiles(fs, order, OrganizeTarget,
                                    [p \in WalkFiles(fs, OrganizeSource) |-> "ok"])} :
          /\ fs' = r.fs
          /\ last' = Organizing("copy_files", r.raised, "", <<>>)
    /\ pre' = fs
    /\ calls' = calls + 1
    /\ UNCHANGED index

\* organize, lines 214 and 224: self.deduplicate_files(self.target_folder),
\* after the copy and again after the video folder
OrganizeDeduplicateFiles ==
    /\ last.op \in {"copy_files", "process_media_folder"}
    /\ last.op = "process_media_folder" => last.media_type = "video"
    /\ \E order \in ClassifyListings(fs, OrganizeTarget) :
       \E r \in {OrganizerDeduplicateFiles(fs, order, [p \in Range(order) |-> "ok"], {})} :
          /\ fs' = r.fs
          /\ last' = Organizing("deduplicate_files", r.raised, "", <<>>)
    /\ pre' = fs
    /\ calls' = calls + 1
    /\ UNCHANGED index

\* organize, line 217: self.classify_files()
OrganizeClassifyFiles ==
    /\ last.op = "deduplicate_files"
    /\ last.prev = "copy_files"
    /\ \E g \in {MakeDirs(MakeDirs(fs, MediaFolder("image")), MediaFolder("video"))} :
       \E order \in ClassifyListings(g, OrganizeTarget) :
       \E r \in {OrganizerClassifyFiles(fs, OrganizeTarget, order)} :
          /\ fs' = r.fs
          /\ last' = Organizing("classify_files", r.raised, "", <<>>)
    /\ pre' = fs
    /\ calls' = calls + 1
    /\ UNCHANGED index

\* process_media_folder, lines 121-127: the image folder after
\* classify_files, the video folder after the image folder; camera and
\* no_camera are made and the folder is listed.
EnterMediaFolder ==
    /\ last.op \in {"classify_files", "process_media_folder"}
    /\ last.op = "process_media_folder" => last.media_type = "image"
    /\ \E media_type \in {IF last.op = "classify_files" THEN "image" ELSE "video"} :
       \E g \in {MakeDirs(MakeDirs(fs, Join(MediaFolder(media_type), "camera")),
                          Join(MediaFolder(media_type), "no_camera"))} :
       \E order \in ClassifyListings(g, MediaFolder(media_type)) :
          /\ fs' = g
          /\ last' = Organizing("sort", FALSE, media_type, order)
    /\ pre' = fs
    /\ calls' = calls + 1
    /\ UNCHANGED index

\* process_media_folder, lines 127-142, for the next file of the listing
SortFile ==
    /\ last.op = "sort"
    /\ last.todo # <<>>
    /\ \E r \in {SortMediaLoop(fs, MediaFolder(last.media_type), <<Head(last.todo)>>, 1)} :
          /\ fs' = r.fs
          /\ last' = Organizing("sort", r.raised, last.media_type, Tail(last.todo))
    /\ pre' = fs
    /\ calls' = calls + 1
    /\ UNCHANGED index

\* process_media_folder, line 145, and process_camera_folder, line 154: the
\* camera folder is listed.
EnterCameraFolder ==
    /\ last.op = "sort"
    /\ last.todo = <<>>
    /\ \E order \in ClassifyListings(fs, Join(MediaFolder(last.media_type), "camera")) :
          last' = Organizing("process_camera_folder", FALSE, last.media_type, order)
    /\ pre' = fs
    /\ calls' = calls + 1
    /\ UNCHANGED <<fs, index>>

\* process_camera_folder, lines 154-178, for the next file of the listing
CameraFile ==
    /\ last.op = "process_camera_folder"
    /\ last.todo # <<>>
    /\ \E r \in {ProcessCameraFile(fs, Join(MediaFolder(last.media_type), "camera"),
                                   last.media_type, Head(last.todo))} :
          /\ fs' = r.fs
          /\ last' = Organizing("process_camera_folder", r.raised, last.media_type,
                                Tail(last.todo))
    /\ pre' = fs
    /\ calls' = calls + 1
    /\ UNCHANGED index

\* process_media_folder, line 148, and process_no_camera_folder, line 184:
\* the no_camera folder is listed.
EnterNoCameraFolder ==
    /\ last.op = "process_camera_folder"
    /\ last.todo = <<>>
    /\ \E order \in ClassifyListings(fs, Join(MediaFolder(last.media_type), "no_camera")) :
          last' = Organizing("process_no_camera_folder", FALSE, last.media_type, order)
    /\ pre' = fs
    /\ calls' = calls + 1
    /\ UNCHANGED <<fs, index>>

\* process_no_camera_folder, lines 184-205, for the next file of the listing
NoCameraFile ==
    /\ last.op = "process_no_camera_folder"
    /\ last.todo # <<>>
    /\ \E r \in {ProcessNoCameraFile(fs, Join(MediaFolder(last.media_type), "no_camera"),
                                     last.media_type, Head(last.todo))} :
          /\ fs' = r.fs
          /\ last' = Organizing("process_no_camera_folder", r.raised, last.media_type,
                                Tail(last.todo))
    /\ pre' = fs
    /\ calls' = calls + 1
    /\ UNCHANGED index

\* process_media_folder returns to organize (lines 220, 221).
LeaveMediaFolder ==
    /\ last.op = "process_no_camera_folder"
    /\ last.todo = <<>>
    /\ last' = Organizing("process_media_folder", FALSE, last.media_type, <<>>)
    /\ pre' = fs
    /\ calls' = calls + 1
    /\ UNCHANGED <<fs, index>>

NextOrganize ==
    \/ OrganizeCopyFiles
    \/ OrganizeDeduplicateFiles
    \/ OrganizeClassifyFiles
    \/ EnterMediaFolder
    \/ SortFile
    \/ EnterCameraFolder
    \/ CameraFile
    \/ EnterNoCameraFolder
    \/ NoCameraFile
    \/ LeaveMediaFolder

SpecOrganize == InitOrganize /\ [][NextOrganize]_vars


-----------------------------------------------------------------------------
(* Claims about the order of the organizer's stages.                       *)

\* The stage a call of organize() belongs to: 1 Copying, 2 Deduplicating,
\* 3 Classifying, 4 Resolving and Renaming, 5 Grouping, 6 Done.  The calls
\* of process_media_folder, which resolve, rename and group one folder after
\* the other, are all counted with the earliest of these stages.
StageRank(op) ==
    CASE op = "none" -> 0
      [] op = "copy_files" -> 1
      [] op = "deduplicate_files" -> 2
      [] op = "classify_files" -> 3
      [] op \in {"sort", "process_camera_folder", "process_no_camera_folder",
                 "process_media_folder"} -> 4
      [] OTHER -> 6

\* The folders whose files are renamed and grouped.
RenamedFolders ==
    {Join(MediaFolder(media_type), d) :
        media_type \in {"image", "video"}, d \in {"camera", "no_camera"}}

\* The files of folder d that are in a period bucket.
Grouped(f, d) == {p \in WalkFiles(f, d) : Dirname(p) # d}

\* C20: organize() goes through its stages in the order Copying,
\* Deduplicating, Classifying, Resolving and Renaming, Grouping, Done, never
\* back, and no file of a folder is in a period bucket while another file of
\* that folder is still to be renamed.
C20_StagesInOrder ==
    /\ StageRank(last.prev) <= StageRank(last.op)
    /\ \A d \in RenamedFolders : Grouped(fs, d) # {} => TopFiles(fs, d) = {}


-----------------------------------------------------------------------------
(* Claims about a whole run of the organizer.                              *)

\* The source folder of the scenario: a picture taken on 2022-01-01 (a.jpg),
\* a copy of it with the same bytes (b.jpg), a video without metadata
\* (v.mp4) and a document (d.txt).
Scenario ==
    /\ WalkFiles(fs, OrganizeSource) = {"s/a.jpg", "s/b.jpg", "s/v.mp4", "s/d.txt"}
    /\ fs["s/a.jpg"] = File("p6")
    /\ fs["s/b.jpg"] = File("p6")
    /\ fs["s/v.mp4"] = File("v2")

\* organize() has made its last call.
OrganizeDone ==
    \/ last.op = "failed"
    \/ last.op = "deduplicate_files" /\ last.prev = "process_media_folder"

\* The files of the tree under d that are in a directory of the given name.
InBucket(f, d, bucket) == {p \in WalkFiles(f, d) : Basename(Dirname(p)) = bucket}

\* C21: organize() on the scenario ends with exactly one picture in the
\* target, in a 2022 bucket, the video alone in the video folder's bucket for
\* files without capture time, the document where it was and not in the
\* target, and no two files of the target with the same content.
C21_EndToEnd ==
    (Scenario /\ OrganizeDone) =>
        /\ ~last.raised
        /\ Cardinality(WalkFiles(fs, MediaFolder("image"))) = 1
        /\ InBucket(fs, MediaFolder("image"), "2022") = WalkFiles(fs, MediaFolder("image"))
        /\ Cardinality(WalkFiles(fs, MediaFolder("video"))) = 1
        /\ WalkFiles(fs, MediaFolder("video"))
              = WalkFiles(fs, Join(MediaFolder("video"), "no_camera"))
        /\ WalkFiles(fs, OrganizeTarget)
              = WalkFiles(fs, MediaFolder("image")) \cup WalkFiles(fs, MediaFolder("video"))
        /\ \A p, q \in WalkFiles(fs, OrganizeTarget) : fs[p].data = fs[q].data => p = q


-----------------------------------------------------------------------------
(* Claims about symbolic links.                                            *)

\* C22: the scans skip symbolic links: no path of a group that
\* find_duplicate_files has built is a symbolic link, and no path that a
\* deduplication removes is one.
C22_LinksSkipped ==
    /\ last.op = "find_duplicate_files" =>
          \A g \in DOMAIN index.groups : \A p \in GroupPaths(g) : ~IsLink(pre, p)
    /\ \A i \in DOMAIN last.removed : ~IsLink(pre, last.removed[i])


-----------------------------------------------------------------------------
(* rename_picture: naming the pictures of a tree after their capture time. *)

\* \w of the regular expression, for ASCII names
WordChars == UpperCase \o LowerCase \o Digits \o "_"

RECURSIVE IsWordFrom(_, _)
IsWordFrom(s, i) ==
    i > Len(s) \/ (Find(WordChars, Ch(s, i), 1) > 0 /\ IsWordFrom(s, i + 1))

\* is_standard_filename: STANDARD_NAME_PATTERN = ^IMG_\d{8}_\d{6}\.\w+$,
\* re.IGNORECASE
IsStandardFilename(filename) ==
    /\ Len(filename) >= 21
    /\ Lower(SubSeq(filename, 1, 4)) = "img_"
    /\ IsDigits(SubSeq(filename, 5, 12))
    /\ Ch(filename, 13) = "_"
    /\ IsDigits(SubSeq(filename, 14, 19))
    /\ Ch(filename, 20) = "."
    /\ IsWordFrom(filename, 21)

\* get_shooting_time(file_path): the DateTimeOriginal tag as strptime reads
\* it; None (NoTime) without the tag or when strptime raises.
GetShootingTime(f, file_path) ==
    IF ExifOf(f, file_path) = NoExif THEN NoTime
    ELSE Only({IF r.ok THEN r ELSE NoTime : r \in {Strptime(ExifOf(f, file_path))}})

\* batch_rename_photos: valid_exts
valid_exts == {".jpg", ".jpeg", ".png", ".heic", ".gif", ".tiff", ".webp", ".bmp"}

\* time_counter[time_str] of a folder: used holds one <<folder, time_str>>
\* for each time the counter was raised.
TimeCounter(used, dir_path, time_str) ==
    Cardinality({j \in DOMAIN used : used[j] = <<dir_path, time_str>>})

RECURSIVE NewNameLoop(_, _, _, _, _, _, _)
\* generate_new_filename, lines 104-108: while new_path.exists()
NewNameLoop(f, dir_path, time_str, counter, file_ext, conflict_count, new_path) ==
    IF Exists(f, new_path)
    THEN NewNameLoop(f, dir_path, time_str, counter, file_ext, conflict_count + 1,
                     Join(dir_path, "IMG_" \o time_str \o "_" \o Str(counter) \o "_"
                                        \o Str(conflict_count + 1) \o file_ext))
    ELSE new_path

\* generate_new_filename(file_path, time_counter): [new_path, status, used].
\* The status texts are named skip_standard, skip_no_time, skip_same and ok.
GenerateNewFilename(f, file_path, used) ==
    LET dir_path == Dirname(file_path)
        filename == Basename(file_path)
        file_ext == Lower(SplitExt(filename)[2])
    IN  IF IsStandardFilename(filename)
        THEN [new_path |-> file_path, status |-> "skip_standard", used |-> used]
        ELSE Only({
          IF ~shoot_time.ok
          THEN [new_path |-> file_path, status |-> "skip_no_time", used |-> used]
          ELSE
            LET time_str == Strftime(shoot_time.dt)
                counter == TimeCounter(used, dir_path, time_str)
                new_name == IF counter > 0
                            THEN "IMG_" \o time_str \o "_" \o Str(counter) \o file_ext
                            ELSE "IMG_" \o time_str \o file_ext
                new_path == NewNameLoop(f, dir_path, time_str, counter, file_ext, 0,
                                        Join(dir_path, new_name))
            IN  [new_path |-> new_path,
                 status |-> IF new_path = file_path THEN "skip_same" ELSE "ok",
                 used |-> Append(used, <<dir_path, time_str>>)]
          : shoot_time \in {GetShootingTime(f, file_path)}})

RECURSIVE BatchRenameLoop(_, _, _, _, _)
\* batch_rename_photos, lines 156-193: the files of all_images, folder by
\* folder. [fs, results]
BatchRenameLoop(f, all_images, i, used, results) ==
    IF i > Len(all_images) THEN [fs |-> f, results |-> results]
    ELSE Only({
      IF all_images[i] = g.new_path
      THEN BatchRenameLoop(f, all_images, i + 1, g.used,
               Append(results, [original |-> all_images[i], new |-> all_images[i],
                                status |-> g.status]))
      ELSE Only({
        IF r.raised
        THEN BatchRenameLoop(f, all_images, i + 1, g.used,
                 Append(results, [original |-> all_images[i], new |-> all_images[i],
                                  status |-> "failed"]))
        ELSE BatchRenameLoop(r.fs, all_images, i + 1, g.used,
                 Append(results, [original |-> all_images[i], new |-> g.new_path,
                                  status |-> g.status]))
        : r \in {OsRename(f, all_images[i], g.new_path)}})
      : g \in {GenerateNewFilename(f, all_images[i], used)}})

\* The pictures the walk of batch_rename_photos collects, in walk order.
AllImages(order) ==
    SelectSeq(order, LAMBDA file_path : Lower(SplitExt(Basename(file_path))[2]) \in valid_exts)

\* rename_picture.batch_rename_photos(root_dir), the walk giving order
BatchRenamePhotos(f, order) == BatchRenameLoop(f, AllImages(order), 1, <<>>, <<>>)

-----------------------------------------------------------------------------
(* The state machine of a tree of pictures and batch_rename_photos.        *)

MaxRenameFiles == 3

RenameDir == "r"

\* The files the tree can hold: pictures with a camera's name and one that
\* has the standard name already.
RenameNames == {"r/a.jpg", "r/b.JPG", "r/IMG_20230515_143000.jpg", "r/s/a.jpg"}

\* p1 and p5 are two pictures taken in the same second, p3 has no tag.
RenameContents == {"p1", "p5", "p3"}

NoRename == [op |-> "none", prev |-> "none", raised |-> FALSE, results |-> <<>>]

InitRename ==
    /\ \E S \in SUBSET RenameNames :
          /\ Cardinality(S) <= MaxRenameFiles
          /\ \E content \in [S -> RenameContents] :
                fs = Tree([p \in S |-> File(content[p])], S) @@ (RenameDir :> Dir)
    /\ pre = fs
    /\ last = NoRename
    /\ index = NoIndex
    /\ calls = 0

\* batch_rename_photos(RenameDir), on a tree or on the tree it produced
BatchRenamePhotosCall ==
    /\ last.op = "none" \/ (last.op = "batch_rename_photos" /\ calls < 3)
    /\ \E order \in WalkOrders(fs, RenameDir) :
       \E r \in {BatchRenamePhotos(fs, order)} :
          /\ fs' = r.fs
          /\ last' = [op |-> "batch_rename_photos", prev |-> last.op, raised |-> FALSE,
                      results |-> r.results]
    /\ pre' = fs
    /\ calls' = calls + 1
    /\ UNCHANGED index

NextRename == BatchRenamePhotosCall

SpecRename == InitRename /\ [][NextRename]_vars


-----------------------------------------------------------------------------
(* Claims about batch_rename_photos.                                       *)

\* The name is IMG_<date>_<time>.ext, or IMG_<date>_<time>_k.ext with one
\* numeric suffix k >= 1.
HasUniformName(name) ==
    LET root == SplitExt(name)[1]
    IN  /\ MatchesStandardName("IMG", root)
        /\ \/ Len(root) = 19
           \/ /\ Len(root) > 20
              /\ Ch(root, 20) = "_"
              /\ IsDigits(SubSeq(root, 21, Len(root)))
              /\ Int(SubSeq(root, 21, Len(root))) >= 1

\* The name a suffixed name comes after: the bare name for _1, _(k-1) for _k.
NameBefore(name) ==
    LET root == SplitExt(name)[1]
        k == Int(SubSeq(root, 21, Len(root)))
    IN  SubSeq(root, 1, 19) \o (IF k = 1 THEN "" ELSE "_" \o Str(k - 1))
            \o SplitExt(name)[2]

\* The entries of the report for files that were given a new name.
Renamed == {i \in DOMAIN last.results : last.results[i].new # last.results[i].original}

\* C23: every name batch_rename_photos gives is IMG_<date>_<time>.ext or
\* IMG_<date>_<time>_k.ext with a single numeric suffix k >= 1, and a
\* suffixed name is given only after the one before it is taken, the first
\* conflict giving _1, whatever the directory held.
C23_OneSuffixConvention ==
    last.op = "batch_rename_photos" =>
        \A i \in Renamed :
            LET new == last.results[i].new
            IN  /\ HasUniformName(Basename(new))
                /\ Len(SplitExt(Basename(new))[1]) > 19
                      => Exists(fs, Join(Dirname(new), NameBefore(Basename(new))))

\* C24: a run of batch_rename_photos on the tree an earlier run produced
\* renames no file.
C24_RenameIsIdempotent ==
    (last.op = "batch_rename_photos" /\ last.prev = "batch_rename_photos") =>
        /\ Renamed = {}
        /\ fs = pre


-----------------------------------------------------------------------------
(* Claims about what classification keeps.                                 *)

\* C27: classify_files (of classify_files.py, of FileOrganizer and of
\* organize_photos) loses no file: the directory holds as many files after
\* the call as before, and every file that was in image/ or video/ before is
\* there with the content it had.
C27_ClassificationLosesNone ==
    (last.op \in ClassifyFilesOps \cup {"op_classify_files"}) =>
        /\ Cardinality(WalkFiles(fs, MediaDir)) = Cardinality(WalkFiles(pre, MediaDir))
        /\ \A b \in Buckets : \A p \in WalkFiles(pre, b) : p \in DOMAIN fs /\ fs[p] = pre[p]


-----------------------------------------------------------------------------
(* media_utils.group_by_year and group_by_year_month: the named files of   *)
(* a camera folder go into a folder per year, or per year and month.       *)

\* group_by_year, line 200: the name test
StartsWithMediaPrefix(filename) ==
    /\ Len(filename) >= 12
    /\ SubSeq(filename, 1, 4) \in {"IMG_", "VID_"}

RECURSIVE GroupByYearLoop(_, _, _, _)
\* media_utils.group_by_year: for filename in os.listdir(camera_dir)
GroupByYearLoop(f, camera_dir, order, i) ==
    IF i > Len(order) THEN f
    ELSE
      LET file_path == order[i]
          filename == Basename(file_path)
          year == SubSeq(filename, 5, 8)
          year_dir == Join(camera_dir, year)
      IN  IF ~IsFile(f, file_path) THEN GroupByYearLoop(f, camera_dir, order, i + 1)
          ELSE IF StartsWithMediaPrefix(filename) /\ IsDigits(year)
          THEN GroupByYearLoop(
                   MoveFileWithConflictResolution(MakeDirs(f, year_dir), file_path,
                                                  year_dir).fs,
                   camera_dir, order, i + 1)
          ELSE GroupByYearLoop(f, camera_dir, order, i + 1)

\* media_utils.group_by_year(camera_dir), os.listdir yielding the given order
GroupByYear(f, camera_dir, order) == GroupByYearLoop(f, camera_dir, order, 1)

RECURSIVE GroupByYearMonthLoop(_, _, _, _)
\* media_utils.group_by_year_month: for filename in os.listdir(camera_dir)
GroupByYearMonthLoop(f, camera_dir, order, i) ==
    IF i > Len(order) THEN f
    ELSE
      LET file_path == order[i]
          filename == Basename(file_path)
          year == SubSeq(filename, 5, 8)
          month == SubSeq(filename, 9, 10)
          year_month_dir == Join(camera_dir, year \o "-" \o month)
      IN  IF ~IsFile(f, file_path) THEN GroupByYearMonthLoop(f, camera_dir, order, i + 1)
          ELSE IF StartsWithMediaPrefix(filename) /\ IsDigits(year) /\ IsDigits(month)
          THEN GroupByYearMonthLoop(
                   MoveFileWithConflictResolution(MakeDirs(f, year_month_dir), file_path,
                                                  year_month_dir).fs,
                   camera_dir, order, i + 1)
          ELSE GroupByYearMonthLoop(f, camera_dir, order, i + 1)

\* media_utils.group_by_year_month(camera_dir), os.listdir yielding the given order
GroupByYearMonth(f, camera_dir, order) == GroupByYearMonthLoop(f, camera_dir, order, 1)

-----------------------------------------------------------------------------
(* The state machine of a camera folder and the two groupings.             *)

MaxGroupFiles == 3

GroupDir == "c"

\* The names the camera folder can hold: renamed files, a file a year folder
\* already holds, camera-original names and other names.
GroupNames == {"c/IMG_20230515_143000.jpg", "c/VID_20220101_000000.mp4",
               "c/2023/IMG_20230515_143000.jpg", "c/2023-05/IMG_20230515_143000.jpg",
               "c/IMG_2092.JPG", "c/IMG_209212.JPG", "c/IMG_1.jpg", "c/a.jpg"}

GroupContents == {"p1", "p3"}

NoGroup == [op |-> "none", prev |-> "none"]

InitGroup ==
    /\ \E S \in SUBSET GroupNames :
          /\ Cardinality(S) <= MaxGroupFiles
          /\ \E content \in [S -> GroupContents] :
                fs = Tree([p \in S |-> File(content[p])], S) @@ (GroupDir :> Dir)
    /\ pre = fs
    /\ last = NoGroup
    /\ index = NoIndex
    /\ calls = 0

\* media_utils.group_by_year(GroupDir)
GroupByYearCall ==
    /\ last.op = "none"
    /\ \E order \in Orders(Listdir(fs, GroupDir)) :
          fs' = GroupByYear(fs, GroupDir, order)
    /\ last' = [op |-> "group_by_year", prev |-> last.op]
    /\ pre' = fs
    /\ calls' = calls + 1
    /\ UNCHANGED index

\* media_utils.group_by_year_month(GroupDir)
GroupByYearMonthCall ==
    /\ last.op = "none"
    /\ \E order \in Orders(Listdir(fs, GroupDir)) :
          fs' = GroupByYearMonth(fs, GroupDir, order)
    /\ last' = [op |-> "group_by_year_month", prev |-> last.op]
    /\ pre' = fs
    /\ calls' = calls + 1
    /\ UNCHANGED index

NextGroup == GroupByYearCall \/ GroupByYearMonthCall

SpecGroup == InitGroup /\ [][NextGroup]_vars

-----------------------------------------------------------------------------
(* Claims about grouping by period.                                        *)

\* A name of the shape IMG_/VID_ YYYYMMDD_HHMMSS.
HasNormalizedShape(name) ==
    MatchesStandardName("IMG", name) \/ MatchesStandardName("VID", name)

\* The folder the grouping names for a file of the normalized shape.
PeriodFolder(op, name) ==
    IF op = "group_by_year" THEN Join(GroupDir, SubSeq(name, 5, 8))
    ELSE Join(GroupDir, SubSeq(name, 5, 8) \o "-" \o SubSeq(name, 9, 10))

\* C28: group_by_year and group_by_year_month move a file of the camera
\* folder only when its name has the normalized shape IMG_/VID_
\* YYYYMMDD_HHMMSS, and then into the folder of its year (or year and month);
\* every file with another name, such as IMG_2092.JPG, stays where it is.
C28_OnlyNormalizedNamesGrouped ==
    (last.op \in {"group_by_year", "group_by_year_month"}) =>
        \A p \in Listdir(pre, GroupDir) :
            IsFile(pre, p) =>
                IF HasNormalizedShape(Basename(p))
                THEN /\ p \notin DOMAIN fs
                     /\ \E q \in Listdir(fs, PeriodFolder(last.op, Basename(p))) :
                           q \notin DOMAIN pre /\ fs[q] = pre[p]
                ELSE p \in DOMAIN fs /\ fs[p] = pre[p]


-----------------------------------------------------------------------------
(* media_organizer.media_processor: the time a file name carries.          *)

\* media_processor.IMAGE_EXTS, VIDEO_EXTS
IMAGE_EXTS == {".jpg", ".jpeg", ".png", ".gif", ".bmp"}

VIDEO_EXTS == {".mp4", ".mov", ".avi", ".mkv", ".flv"}

\* NAME_PATTERNS[k] matching the characters of s from the i-th on:
\* (\d{8})_IMG_(\d{4}), MTXX_(\d{8})_(\d{6}),
\* pt(\d{4})_(\d{2})_(\d{2})_(\d{2})_(\d{2})_(\d{2}), beauty_(\d{12})
NamePatternAt(k, s, i) ==
    CASE k = 1 -> /\ i + 16 <= Len(s)
                  /\ IsDigits(SubSeq(s, i, i + 7))
                  /\ SubSeq(s, i + 8, i + 12) = "_IMG_"
                  /\ IsDigits(SubSeq(s, i + 13, i + 16))
      [] k = 2 -> /\ i + 19 <= Len(s)
                  /\ SubSeq(s, i, i + 4) = "MTXX_"
                  /\ IsDigits(SubSeq(s, i + 5, i + 12))
                  /\ Ch(s, i + 13) = "_"
                  /\ IsDigits(SubSeq(s, i + 14, i + 19))
      [] k = 3 -> /\ i + 20 <= Len(s)
                  /\ SubSeq(s, i, i + 1) = "pt"
                  /\ IsDigits(SubSeq(s, i + 2, i + 5))
                  /\ \A j \in 0..4 : /\ Ch(s, i + 6 + 3 * j) = "_"
                                     /\ IsDigits(SubSeq(s, i + 7 + 3 * j, i + 8 + 3 * j))
      [] OTHER -> /\ i + 18 <= Len(s)
                  /\ SubSeq(s, i, i + 6) = "beauty_"
                  /\ IsDigits(SubSeq(s, i + 7, i + 18))

\* re.search(NAME_PATTERNS[k], filename): where the leftmost match starts, or 0
SearchNamePattern(k, filename) ==
    IF \E i \in 1..Len(filename) : NamePatternAt(k, filename, i)
    THEN CHOOSE i \in 1..Len(filename) :
            /\ NamePatternAt(k, filename, i)
            /\ \A j \in 1..(i - 1) : ~NamePatternAt(k, filename, j)
    ELSE 0

\* The digits extract_time_from_filename hands to strptime for pattern k
\* matched at i.
PatternDigits(k, s, i) ==
    CASE k = 1 -> SubSeq(s, i, i + 7) \o SubSeq(s, i + 13, i + 16) \o "00"
      [] k = 2 -> SubSeq(s, i + 5, i + 12) \o SubSeq(s, i + 14, i + 19)
      [] k = 3 -> SubSeq(s, i + 2, i + 5) \o SubSeq(s, i + 7, i + 8)
                     \o SubSeq(s, i + 10, i + 11) \o SubSeq(s, i + 13, i + 14)
                     \o SubSeq(s, i + 16, i + 17) \o SubSeq(s, i + 19, i + 20)
      [] OTHER -> SubSeq(s, i + 7, i + 18)

\* "%Y%m%d%H%M%S"
CompactFormat == <<"%Y", "%m", "%d", "%H", "%M", "%S">>

RECURSIVE ExtractTimeLoop(_, _)
\* extract_time_from_filename: for pattern in NAME_PATTERNS, from the k-th on;
\* a ValueError of strptime goes on to the next pattern. The eleven-digit
\* branch of the last pattern cannot be taken: its group has twelve digits.
ExtractTimeLoop(filename, k) ==
    IF k > 4 THEN NoTime
    ELSE Only({IF i = 0 THEN ExtractTimeLoop(filename, k + 1)
               ELSE Only({IF r.ok THEN r ELSE ExtractTimeLoop(filename, k + 1) :
                          r \in {StrptimeFormat(PatternDigits(k, filename, i),
                                                CompactFormat)}}) :
               i \in {SearchNamePattern(k, filename)}})

\* media_processor.extract_time_from_filename(filename): [ok, dt]; ~ok is None
ExtractTimeFromFilename(filename) == ExtractTimeLoop(filename, 1)

-----------------------------------------------------------------------------
(* The state machine of one named picture and the two resolutions of its   *)
(* name.                                                                   *)

PatternDir == "n"

PatternDates == {"20230515", "20231345"}

PatternTimes == {"143000", "143061"}

\* The names of the patterns, with and without what the rules allow around
\* them, and names of no pattern.
PatternBaseNames ==
    UNION {{d \o "_IMG_" \o SubSeq(t, 1, 4),
            d \o "_IMG_" \o SubSeq(t, 1, 4) \o "(1)",
            "x" \o d \o "_IMG_" \o SubSeq(t, 1, 4),
            "MTXX_" \o d \o t,
            "MTXX_" \o d \o "_" \o t,
            "beauty_" \o d \o SubSeq(t, 1, 4),
            "beauty_" \o d \o t,
            "pt" \o SubSeq(d, 1, 4) \o "_" \o SubSeq(d, 5, 6) \o "_" \o SubSeq(d, 7, 8)
                 \o "_" \o SubSeq(t, 1, 2) \o "_" \o SubSeq(t, 3, 4) \o "_" \o SubSeq(t, 5, 6),
            "IMG_" \o d \o "_" \o t,
            "a"} : <<d, t>> \in PatternDates \X PatternTimes}

PatternExts == {".jpg", ".JPG"}

PatternContents == {"p1", "p3"}

NoPattern == [op |-> "none", filename |-> "", time |-> NoTime]

InitPattern ==
    /\ \E base \in PatternBaseNames : \E ext \in PatternExts : \E c \in PatternContents :
          fs = (PatternDir :> Dir) @@ (Join(PatternDir, base \o ext) :> File(c))
    /\ pre = fs
    /\ last = NoPattern
    /\ index = NoIndex
    /\ calls = 0

\* media_processor.extract_time_from_filename(file), for the file of the folder
ExtractTimeFromFilenameCall ==
    /\ last.op = "none"
    /\ \E p \in Listdir(fs, PatternDir) :
          last' = [op |-> "extract_time_from_filename", filename |-> Basename(p),
                   time |-> ExtractTimeFromFilename(Basename(p))]
    /\ pre' = fs
    /\ calls' = calls + 1
    /\ UNCHANGED <<fs, index>>

\* media_utils.rename_no_camera_files(PatternDir)
PatternRenameNoCameraFiles ==
    /\ last.op = "none"
    /\ \E order \in Orders(Listdir(fs, PatternDir)) :
          /\ fs' = RenameNoCameraFiles(fs, PatternDir, order)
          /\ last' = [op |-> "rename_no_camera_files", filename |-> Basename(order[1]),
                      time |-> NoTime]
    /\ pre' = fs
    /\ calls' = calls + 1
    /\ UNCHANGED index

NextPattern == ExtractTimeFromFilenameCall \/ PatternRenameNoCameraFiles

SpecPattern == InitPattern /\ [][NextPattern]_vars

-----------------------------------------------------------------------------
(* Claims about the time a file name carries.                              *)

\* Eight digits of a date that exists and six of a time of day.
IsStamp(date, time) ==
    /\ IsDigits(date) /\ Len(date) = 8 /\ IsDigits(time) /\ Len(time) = 6
    /\ Int(SubSeq(date, 1, 4)) >= 1
    /\ Int(SubSeq(date, 5, 6)) \in 1..12
    /\ Int(SubSeq(date, 7, 8)) \in
           1..DaysInMonth(Int(SubSeq(date, 1, 4)), Int(SubSeq(date, 5, 6)))
    /\ Int(SubSeq(time, 1, 2)) \in 0..23
    /\ Int(SubSeq(time, 3, 4)) \in 0..59
    /\ Int(SubSeq(time, 5, 6)) \in 0..59

\* The date and time the stated mapping gives a base name of one of the two
\* shapes, as <date>_<time>; "" for every other name.
StatedStamp(base) ==
    IF /\ Len(base) = 17 /\ SubSeq(base, 9, 13) = "_IMG_"
       /\ IsStamp(SubSeq(base, 1, 8), SubSeq(base, 14, 17) \o "00")
    THEN SubSeq(base, 1, 8) \o "_" \o SubSeq(base, 14, 17) \o "00"
    ELSE IF /\ Len(base) = 19 /\ SubSeq(base, 1, 5) = "MTXX_"
            /\ IsStamp(SubSeq(base, 6, 13), SubSeq(base, 14, 19))
    THEN SubSeq(base, 6, 13) \o "_" \o SubSeq(base, 14, 19)
    ELSE ""

\* C30: a name of shape YYYYMMDD_IMG_HHMM resolves to that date and the time
\* HHMM00, a name of shape MTXX_YYYYMMDDHHMMSS to its first eight digits as
\* the date and its last six as the time, and rename_no_camera_files and
\* extract_time_from_filename give the same result on every such name.
C30_PatternMapping ==
    LET base == SplitExt(last.filename)[1]
        ext == Lower(SplitExt(last.filename)[2])
    IN  StatedStamp(base) # "" =>
            /\ last.op = "extract_time_from_filename" =>
                  /\ last.time.ok
                  /\ Strftime(last.time.dt) = StatedStamp(base)
                  /\ "IMG_" \o Strftime(last.time.dt)
                        = NoCameraBaseName(fs, Join(PatternDir, last.filename))
            /\ last.op = "rename_no_camera_files" =>
                  Listdir(fs, PatternDir)
                      = {Join(PatternDir, "IMG_" \o StatedStamp(base) \o ext)}


-----------------------------------------------------------------------------
(* media_organizer.media_processor: stray files are gathered into images/  *)
(* or videos/, sorted into camera/ and no_camera/, renamed by their time   *)
(* and grouped by month.                                                   *)

\* media_processor.is_valid_filename: re.match(r'^IMG_\d{8}_\d{6}\..+$', filename)
MpIsValidFilename(filename) ==
    /\ Len(filename) >= 21
    /\ SubSeq(filename, 1, 4) = "IMG_"
    /\ IsDigits(SubSeq(filename, 5, 12))
    /\ Ch(filename, 13) = "_"
    /\ IsDigits(SubSeq(filename, 14, 19))
    /\ Ch(filename, 20) = "."

\* group_by_date, lines 277-278: strptime(filename.split('_')[1], "%Y%m%d");
\* [ok, dt], ~ok for the IndexError of a name without "_" and for ValueError
GroupDate(filename) ==
    LET i == Find(filename, "_", 1)
        j == Find(filename, "_", i + 1)
    IN  IF i = 0 THEN NoTime
        ELSE StrptimeFormat(SubSeq(filename, i + 1, IF j = 0 THEN Len(filename) ELSE j - 1),
                            <<"%Y", "%m", "%d">>)

\* media_processor.group_by_date(file_path, base_dir): the file system after it
MpGroupByDate(f, file_path, base_dir) ==
    Only({IF ~file_date.ok THEN f
          ELSE LET group_dir == Join(base_dir, Pad4(file_date.dt.year) \o "-"
                                                   \o Pad2(file_date.dt.month))
                   g == MakeDirs(f, group_dir)
               IN  ShutilMove(g, file_path,
                              MpConflictLoop(g, group_dir, Basename(file_path), 1,
                                             Join(group_dir, Basename(file_path)))).fs :
          file_date \in {GroupDate(Basename(file_path))}})

\* process_camera_dir and process_no_camera_dir, lines 172-184 and 204-215:
\* the file gets the name IMG_<time><ext> in its directory; the new path
MpRenameByTime(f, file_path, capture_time) ==
    LET root == Dirname(file_path)
        new_name == "IMG_" \o Strftime(capture_time) \o SplitExt(Basename(file_path))[2]
    IN  MpConflictLoop(f, root, new_name, 1, Join(root, new_name))

\* process_camera_dir, lines 164-188: the body of the loop for one file
MpProcessCameraFile(f, camera_dir, file_path) ==
    IF ~MpIsValidFilename(Basename(file_path))
    THEN Only({IF capture_time.value.ok
               THEN Only({MpGroupByDate(OsRename(f, file_path, new_path).fs, new_path,
                                        camera_dir) :
                          new_path \in {MpRenameByTime(f, file_path, capture_time.value.dt)}})
               ELSE MpGroupByDate(f, file_path, camera_dir) :
               capture_time \in {GetCaptureTime(f, file_path,
                                     IF Contains(camera_dir, "images") THEN "images"
                                     ELSE "videos")}})
    ELSE MpGroupByDate(f, file_path, camera_dir)

\* process_no_camera_dir, lines 196-219: the body of the loop for one file
MpProcessNoCameraFile(f, no_camera_dir, file_path) ==
    Only({IF capture_time.ok
          THEN Only({MpGroupByDate(OsRename(f, file_path, new_path).fs, new_path,
                                   no_camera_dir) :
                     new_path \in {MpRenameByTime(f, file_path, capture_time.dt)}})
          ELSE MpGroupByDate(f, file_path, no_camera_dir) :
          capture_time \in {ExtractTimeFromFilename(Basename(file_path))}})

RECURSIVE MpProcessFiles(_, _, _, _, _)
\* for file in files, from the i-th on, of process_camera_dir (camera) or of
\* process_no_camera_dir
MpProcessFiles(f, base_dir, files, i, camera) ==
    IF i > Len(files) THEN f
    ELSE MpProcessFiles(IF camera THEN MpProcessCameraFile(f, base_dir, files[i])
                        ELSE MpProcessNoCameraFile(f, base_dir, files[i]),
                        base_dir, files, i + 1, camera)

RECURSIVE MpWalkDir(_, _, _, _)
RECURSIVE MpWalkSubdirs(_, _, _, _, _)
\* for root, _, files in os.walk(base_dir), from root on: the directory is
\* listed when the walk reaches it, its files are handled, and then the
\* directories it listed are walked as they are by then. The file systems
\* the orders of listing can leave.
MpWalkDir(f, base_dir, root, camera) ==
    UNION {MpWalkSubdirs({MpProcessFiles(f, base_dir, files, 1, camera)},
                         base_dir, dirs, 1, camera) :
           <<files, dirs>> \in Orders({p \in Listdir(f, root) : ~IsDir(f, p)})
                                  \X Orders({p \in Listdir(f, root) : IsDir(f, p)})}

MpWalkSubdirs(F, base_dir, dirs, j, camera) ==
    IF j > Len(dirs) THEN F
    ELSE MpWalkSubdirs(UNION {MpWalkDir(g, base_dir, dirs[j], camera) : g \in F},
                       base_dir, dirs, j + 1, camera)

\* media_processor.process_camera_dir(camera_dir): the file systems it can leave
MpProcessCameraDir(f, camera_dir) ==
    IF ~Exists(f, camera_dir) THEN {f} ELSE MpWalkDir(f, camera_dir, camera_dir, TRUE)

\* media_processor.process_no_camera_dir(no_camera_dir)
MpProcessNoCameraDir(f, no_camera_dir) ==
    IF ~Exists(f, no_camera_dir) THEN {f}
    ELSE MpWalkDir(f, no_camera_dir, no_camera_dir, FALSE)

\* process_images and process_videos, the walk that gathers: the orders in
\* which os.walk(target_dir) yields the files outside the media directory
StrayWalkOrders(f, target_dir, media_dir) ==
    {s \in Orders({p \in WalkFiles(f, target_dir) : ~StartsWith(Dirname(p), media_dir)}) :
        IsWalkOrder(s)}

RECURSIVE ProcessImagesMove(_, _, _, _, _)
\* process_images, lines 42-54: for src_path in other_images; [fs, moved],
\* moved the pairs of source and destination
ProcessImagesMove(f, image_dir, other_images, i, moved) ==
    IF i > Len(other_images) THEN [fs |-> f, moved |-> moved]
    ELSE
      LET src_path == other_images[i]
          filename == Basename(src_path)
          dest_path == MpConflictLoop(f, image_dir, filename, 1, Join(image_dir, filename))
      IN  ProcessImagesMove(ShutilMove(f, src_path, dest_path).fs, image_dir,
                            other_images, i + 1, Append(moved, <<src_path, dest_path>>))

RECURSIVE ProcessVideosMove(_, _, _, _, _, _)
\* process_videos, lines 84-96: for src_path in other_videos; the name of a
\* taken destination is made from file, the variable of the gathering loop
ProcessVideosMove(f, video_dir, other_videos, i, file, moved) ==
    IF i > Len(other_videos) THEN [fs |-> f, moved |-> moved]
    ELSE
      LET src_path == other_videos[i]
          filename == Basename(src_path)
          dest_path == MpConflictLoop(f, video_dir, file, 1, Join(video_dir, filename))
      IN  ProcessVideosMove(ShutilMove(f, src_path, dest_path).fs, video_dir,
                            other_videos, i + 1, file,
                            Append(moved, <<src_path, dest_path>>))

\* process_images, lines 57-63, and process_videos, lines 99-105:
\* classify_media, process_camera_dir, process_no_camera_dir
MpSortRenameGroup(f, media_dir, media_type) ==
    UNION {IF c.raised THEN {c.fs}
           ELSE UNION {MpProcessNoCameraDir(g, Join(media_dir, "no_camera")) :
                       g \in MpProcessCameraDir(c.fs, Join(media_dir, "camera"))} :
           c \in {MpClassifyMedia(f, media_dir, media_type, order) :
                  order \in MpClassifyWalkOrders(
                                MakeDirs(MakeDirs(f, Join(media_dir, "camera")),
                                         Join(media_dir, "no_camera")), media_dir)}}

\* media_processor.process_images(target_dir): the outcomes [fs, moved]
ProcessImages(f, target_dir) ==
    LET image_dir == Join(target_dir, "images")
    IN  UNION {{[fs |-> g, moved |-> m.moved] :
                g \in MpSortRenameGroup(m.fs, image_dir, "images")} :
               m \in {ProcessImagesMove(f, image_dir,
                          SelectSeq(order, LAMBDA p :
                              Lower(SplitExt(Basename(p))[2]) \in IMAGE_EXTS), 1, <<>>) :
                      order \in StrayWalkOrders(f, target_dir, image_dir)}}

\* media_processor.process_videos(target_dir): the outcomes [fs, moved]
ProcessVideos(f, target_dir) ==
    LET video_dir == Join(target_dir, "videos")
    IN  UNION {{[fs |-> g, moved |-> m.moved] :
                g \in MpSortRenameGroup(m.fs, video_dir, "videos")} :
               m \in {ProcessVideosMove(f, video_dir,
                          SelectSeq(order, LAMBDA p :
                              Lower(SplitExt(Basename(p))[2]) \in VIDEO_EXTS), 1,
                          IF order = <<>> THEN "" ELSE Basename(order[Len(order)]),
                          <<>>) :
                      order \in StrayWalkOrders(f, target_dir, video_dir)}}

-----------------------------------------------------------------------------
(* The state machine of a target folder and the two processors.            *)

MaxProcessorFiles == 3

ProcessorDir == "g"

\* main.copy_with_conflict_resolution has made images/ and videos/; the
\* target folder can hold files of its own beside them.
ProcessorImageNames == {"g/images/a.jpg", "g/images/20230515_IMG_1430.jpg",
                        "g/a.jpg", "g/s/a.jpg"}

ProcessorVideoNames == {"g/videos/v.mp4", "g/v.mp4", "g/s/z.MOV"}

ProcessorOtherNames == {"g/s/n.txt"}

ProcessorContents(p) ==
    IF p \in ProcessorImageNames THEN {"p1", "p3"}
    ELSE IF p \in ProcessorVideoNames THEN {"v1", "v2"}
    ELSE {"p3"}

NoProcessor == [op |-> "none", prev |-> "none", moved |-> <<>>]

InitProcessor ==
    /\ \E S \in SUBSET (ProcessorImageNames \cup ProcessorVideoNames
                            \cup ProcessorOtherNames) :
          /\ Cardinality(S) <= MaxProcessorFiles
          /\ \E content \in [S -> {"p1", "p3", "v1", "v2"}] :
                /\ \A p \in S : content[p] \in ProcessorContents(p)
                /\ fs = Tree([p \in S |-> File(content[p])], S)
                           @@ (ProcessorDir :> Dir)
                           @@ (Join(ProcessorDir, "images") :> Dir)
                           @@ (Join(ProcessorDir, "videos") :> Dir)
    /\ pre = fs
    /\ last = NoProcessor
    /\ index = NoIndex
    /\ calls = 0

\* media_processor.process_images(ProcessorDir), on the folder as it is or as
\* a run of process_images left it
ProcessImagesCall ==
    /\ last.op \in {"none", "process_images"}
    /\ last.prev = "none"
    /\ \E r \in ProcessImages(fs, ProcessorDir) :
          /\ fs' = r.fs
          /\ last' = [op |-> "process_images", prev |-> last.op, moved |-> r.moved]
    /\ pre' = fs
    /\ calls' = calls + 1
    /\ UNCHANGED index

\* media_processor.process_videos(ProcessorDir)
ProcessVideosCall ==
    /\ last.op = "none"
    /\ \E r \in ProcessVideos(fs, ProcessorDir) :
          /\ fs' = r.fs
          /\ last' = [op |-> "process_videos", prev |-> last.op, moved |-> r.moved]
    /\ pre' = fs
    /\ calls' = calls + 1
    /\ UNCHANGED index

NextProcessor == ProcessImagesCall \/ ProcessVideosCall

SpecProcessor == InitProcessor /\ [][NextProcessor]_vars


-----------------------------------------------------------------------------
(* Claims about the processors.                                            *)

\* C25: process_images run again on the tree its own run left changes the
\* path of no file: a file in its camera/YYYY-MM folder is neither moved back
\* nor given a new numeric suffix.
C25_RerunKeepsPaths ==
    (last.op = "process_images" /\ last.prev = "process_images") =>
        \A p \in WalkFiles(pre, Join(ProcessorDir, "images")) :
            p \in DOMAIN fs /\ fs[p] = pre[p]

\* The destination has the name of the source, or that name with _k before
\* the extension.
KeepsOwnName(src_path, dest_path) ==
    \/ Basename(dest_path) = Basename(src_path)
    \/ \E k \in 1..MaxProcessorFiles :
          Basename(dest_path) = SplitExt(Basename(src_path))[1] \o "_" \o Str(k)
                                    \o SplitExt(Basename(src_path))[2]

\* C29: a stray file that process_images or process_videos moves into
\* images/ or videos/ keeps its own base name and extension, with at most a
\* numeric _k before the extension; it never gets the name or the extension
\* of another file.
C29_StrayKeepsOwnName ==
    (last.op \in {"process_images", "process_videos"}) =>
        \A i \in DOMAIN last.moved : KeepsOwnName(last.moved[i][1], last.moved[i][2])


-----------------------------------------------------------------------------
(* Two processes that call safe_copy or move_file_with_conflict_resolution *)
(* for the same name into the same directory. Each call of os.path.exists, *)
(* os.makedirs, shutil.copy2 and shutil.move is one step of its process.   *)

RaceProcs == {1, 2}

RaceDst == "d"

\* The file each process brings, and the files the directory can hold.
RaceSources == <<"a/x.txt", "b/x.txt">>

RaceTaken == {"d/x.txt", "d/x_1.txt"}

\* A write that fails when the destination is there, as open(..., 'x') does.
WriteFileExclusive(f, kind, src, new_path) ==
    IF Exists(f, new_path) THEN [fs |-> f, raised |-> TRUE]
    ELSE IF kind = "safe_copy" THEN Copy2(f, src, new_path, "ok")
    ELSE ShutilMove(f, src, new_path)

\* safe_copy, line 46: shutil.copy2(src, new_path);
\* move_file_with_conflict_resolution, line 111: shutil.move(source_path, new_path)
WriteFile(f, kind, src, new_path) ==
    IF kind = "safe_copy" THEN Copy2(f, src, new_path, "ok")
    ELSE ShutilMove(f, src, new_path)

\* A process at the start of its call.
RaceProc(kind, src) ==
    [kind |-> kind, src |-> src, pc |-> "enter", counter |-> 1,
     new_path |-> Join(RaceDst, Basename(src))]

InitRace ==
    /\ \E kinds \in [RaceProcs -> {"safe_copy", "move_file_with_conflict_resolution"}] :
       \E taken \in SUBSET RaceTaken :
       \E made \in BOOLEAN :
          /\ ~made => taken = {} /\ \A i \in RaceProcs : kinds[i] = "safe_copy"
          /\ fs = Tree([p \in taken |-> File("Z")], taken)
                     @@ Tree(RaceSources[1] :> File("X") @@ RaceSources[2] :> File("Y"),
                             {RaceSources[1], RaceSources[2]})
                     @@ (IF made THEN RaceDst :> Dir ELSE <<>>)
          /\ last = [op |-> "none",
                     procs |-> [i \in RaceProcs |-> RaceProc(kinds[i], RaceSources[i])],
                     writes |-> <<>>]
    /\ pre = fs
    /\ index = NoIndex
    /\ calls = 0

\* The state after process i has taken a step to the given position.
RaceStep(i, pc, counter, new_path, writes) ==
    [op |-> "race",
     procs |-> [last.procs EXCEPT ![i] = [@ EXCEPT !.pc = pc, !.counter = counter,
                                                   !.new_path = new_path]],
     writes |-> writes]

\* safe_copy, line 35: if not os.path.exists(dst); the mover has no such test
RaceEnter(i) ==
    /\ last.procs[i].pc = "enter"
    /\ last' = RaceStep(i, IF last.procs[i].kind = "safe_copy" /\ ~Exists(fs, RaceDst)
                           THEN "makedirs" ELSE "exists",
                        1, last.procs[i].new_path, last.writes)
    /\ UNCHANGED <<fs, pre, index, calls>>

\* safe_copy, line 36: os.makedirs(dst), which raises when dst is there by now
RaceMakeDirs(i) ==
    /\ last.procs[i].pc = "makedirs"
    /\ IF Exists(fs, RaceDst)
       THEN /\ last' = RaceStep(i, "failed", 1, last.procs[i].new_path, last.writes)
            /\ fs' = fs
       ELSE /\ last' = RaceStep(i, "exists", 1, last.procs[i].new_path, last.writes)
            /\ fs' = Put(fs, RaceDst, Dir)
    /\ UNCHANGED <<pre, index, calls>>

\* safe_copy, lines 42-44, and move_file_with_conflict_resolution, lines
\* 104-107: one test of while os.path.exists(new_path) and, when it is true,
\* the body of the loop
RaceExists(i) ==
    /\ last.procs[i].pc = "exists"
    /\ LET p == last.procs[i]
           name == SplitExt(Basename(p.src))
       IN  last' = IF Exists(fs, p.new_path)
                   THEN RaceStep(i, "exists", p.counter + 1,
                                 Join(RaceDst, name[1] \o "_" \o Str(p.counter) \o name[2]),
                                 last.writes)
                   ELSE RaceStep(i, "write", p.counter, p.new_path, last.writes)
    /\ UNCHANGED <<fs, pre, index, calls>>

\* safe_copy, line 46, and move_file_with_conflict_resolution, lines 110-116:
\* the file is written under the name that was found free
RaceWrite(i) ==
    /\ last.procs[i].pc = "write"
    /\ \E p \in {last.procs[i]} :
       \E r \in {WriteFile(fs, p.kind, p.src, p.new_path)} :
          /\ fs' = r.fs
          /\ last' = RaceStep(i, IF r.raised /\ p.kind = "safe_copy" THEN "failed"
                                 ELSE "done",
                              p.counter, p.new_path,
                              Append(last.writes,
                                     [proc |-> i, path |-> p.new_path,
                                      data |-> ReadFile(fs, p.src), raised |-> r.raised]))
    /\ pre' = fs
    /\ calls' = calls + 1
    /\ UNCHANGED index

NextRace ==
    \E i \in RaceProcs : RaceEnter(i) \/ RaceMakeDirs(i) \/ RaceExists(i) \/ RaceWrite(i)

SpecRace == InitRace /\ [][NextRace]_vars

-----------------------------------------------------------------------------
(* Claims about concurrent writers.                                        *)

\* Both processes found the same name free and both have written.
SameCandidate ==
    /\ Len(last.writes) = 2
    /\ last.writes[1].path = last.writes[2].path

\* C26: the test for a free name and the creation of the file are not one
\* step: two processes that want the same name in the same directory can
\* both find the same path free, and then the file written second replaces
\* the file written first, whose content is nowhere in the directory.
C26_CheckThenCreateRace ==
    SameCandidate =>
        /\ ~last.writes[2].raised
        /\ fs[last.writes[2].path] = File(last.writes[2].data)
        /\ \A q \in WalkFiles(fs, RaceDst) : fs[q] # File(last.writes[1].data)

\* Both processes have passed the test with the same path, and the second
\* write has replaced the first.
C26_Witness ==
    /\ SameCandidate
    /\ \A i \in RaceProcs : last.procs[i].pc = "done"
    /\ last.writes[1].data # last.writes[2].data
    /\ Cardinality(WalkFiles(fs, RaceDst)) = Cardinality(WalkFiles(pre, RaceDst))

====
